---- MODULE Spec2Model ----
(***************************************************************************)
(* Model of the Autel firmware container tools: the Container Tag Parser   *)
(* (src/src/parser.rs), the Format Classifier (src/src/file_types.rs), the *)
(* Archive Directory Locator (src/src/zip_utils.rs), the Recursive         *)
(* Processor (src/src/processor.rs) and the parser that the command-line   *)
(* entry point keeps for itself (src/src/main.rs).                         *)
(*                                                                         *)
(* Byte buffers are sequences of integers 0..255.  Rust slices are 0-based *)
(* and half-open; At and Slice translate them.  An index outside the       *)
(* buffer is a panic in the code; the model records it in an `ok` flag     *)
(* instead of stopping, so that "never panics" is something to check.      *)
(*                                                                         *)
(* usize is taken to be 64 bits wide.  A u32 length read from the framing  *)
(* is kept as a pair of 16-bit limbs (Wide), since it may reach 2^32-1.    *)
(***************************************************************************)
EXTENDS Integers, Sequences, FiniteSets, TLC

VARIABLES
    \* ---- parse_file_entries (parser.rs) ----
    input,      \* how `buffer` was built: [lead, parts, cut]
    buffer,     \* the byte buffer given to parse_file_entries
    pos,        \* `pos`, the scan position
    entries,    \* `entries`, the records pushed so far
    pc,         \* "loop" | "done" | "panic" | "idle"
    info_data,  \* local `info_data` of the last iteration that reached line 87
    ef,         \* local `(filename, header_data)` of that iteration (line 89)
    \* ---- detect_file_type (file_types.rs) ----
    data,       \* the byte buffer given to detect_file_type
    hint,       \* the optional filename
    file_type,  \* the returned FileType, or "pending"
    dok,        \* FALSE iff detect_file_type indexed outside `data`
    \* ---- slice_to_eocd (zip_utils.rs) ----
    zdata,      \* the byte buffer given to slice_to_eocd
    zres,       \* the returned Option<&[u8]>
    zpc,        \* "call" | "ret" | "idle"
    \* ---- process_file and its callees (processor.rs) ----
    stack,      \* the call stack: pending calls and the loops under way
    trace,      \* what was done so far: calls, returns, archive members
                \* yielded by the decoder, filesystem operations, summaries
    status,     \* "run" | "ok" | "err" (the Result of the root call) |
                \* "panic" | "idle"
    \* ---- find_tag (parser.rs) called on its own ----
    fbuffer,    \* the byte buffer given to find_tag
    fstart,     \* `start`
    fres,       \* the returned Option<(usize, &[u8])>
    fpc         \* "call" | "ret" | "idle"

vars ==
    <<input, buffer, pos, entries, pc, info_data, ef, data, hint, file_type, dok,
      zdata, zres, zpc, stack, trace, status, fbuffer, fstart, fres, fpc>>

parseVars == <<input, buffer, pos, entries, pc, info_data, ef>>
detectVars == <<data, hint, file_type, dok>>
zipVars == <<zdata, zres, zpc>>
procVars == <<stack, trace, status>>
findVars == <<fbuffer, fstart, fres, fpc>>

----------------------------------------------------------------------------
(* Bytes and slices                                                        *)

Quote == 34
Lt == 60
Gt == 62

\* "<filetransfer>" with its quotes (16 bytes), and the other two tags
TagTransfer ==
    <<34, 60, 102, 105, 108, 101, 116, 114, 97, 110, 115, 102, 101, 114, 62, 34>>
TagInfo == <<34, 60, 102, 105, 108, 101, 105, 110, 102, 111, 62, 34>>
TagContent ==
    <<34, 60, 102, 105, 108, 101, 99, 111, 110, 116, 101, 110, 116, 62, 34>>

\* the tag texts compared against, without quotes
StrTransfer == SubSeq(TagTransfer, 2, Len(TagTransfer) - 1)
StrInfo == SubSeq(TagInfo, 2, Len(TagInfo) - 1)
StrContent == SubSeq(TagContent, 2, Len(TagContent) - 1)

NoneV == [some |-> FALSE, val |-> <<>>]
SomeV(x) == [some |-> TRUE, val |-> x]

Min(a, b) == IF a <= b THEN a ELSE b
Max(a, b) == IF a >= b THEN a ELSE b
SatSub(a, b) == IF a >= b THEN a - b ELSE 0

\* b[i]; -1 stands for the panic of an index outside the buffer
At(b, i) == IF i >= 0 /\ i < Len(b) THEN b[i + 1] ELSE -1
AtOk(b, i) == i >= 0 /\ i < Len(b)
\* b.get(i)
Get(b, i) == IF i >= 0 /\ i < Len(b) THEN SomeV(b[i + 1]) ELSE NoneV
\* &b[lo..hi]; the empty slice stands for the panic of a range outside b
SliceOk(b, lo, hi) == 0 <= lo /\ lo <= hi /\ hi <= Len(b)
Slice(b, lo, hi) == IF SliceOk(b, lo, hi) THEN SubSeq(b, lo + 1, hi) ELSE <<>>

\* usize values that may exceed 2^31: hi * 65536 + lo
Wide(n) == [hi |-> n \div 65536, lo |-> n % 65536]
WAdd(w, n) == [hi |-> w.hi + ((w.lo + n) \div 65536), lo |-> (w.lo + n) % 65536]
WLeq(a, b) == a.hi < b.hi \/ (a.hi = b.hi /\ a.lo <= b.lo)
WLt(a, b) == a.hi < b.hi \/ (a.hi = b.hi /\ a.lo < b.lo)
WMin(a, b) == IF WLeq(a, b) THEN a ELSE b
\* only for values known to be at most a buffer length
WInt(w) == w.hi * 65536 + w.lo

\* u32::from_be_bytes([b0, b1, b2, b3]) as usize
from_be_bytes(b0, b1, b2, b3) == [hi |-> b0 * 256 + b1, lo |-> b2 * 256 + b3]
\* (n as u32).to_be_bytes() for a Wide n
to_be_bytes(w) == <<w.hi \div 256, w.hi % 256, w.lo \div 256, w.lo % 256>>

----------------------------------------------------------------------------
(* std::str::from_utf8(..).is_ok(): the well-formed byte sequences of      *)
(* UTF-8 (Unicode, table 3-7).                                             *)

Cont(b, i) == i < Len(b) /\ b[i + 1] >= 128 /\ b[i + 1] <= 191
In(b, i, lo, hi) == i < Len(b) /\ b[i + 1] >= lo /\ b[i + 1] <= hi

RECURSIVE Utf8From(_, _)
Utf8From(b, i) ==
    IF i >= Len(b) THEN TRUE
    ELSE LET c == b[i + 1] IN
        IF c <= 127 THEN Utf8From(b, i + 1)
        ELSE IF c >= 194 /\ c <= 223 THEN Cont(b, i + 1) /\ Utf8From(b, i + 2)
        ELSE IF c = 224 THEN
            In(b, i + 1, 160, 191) /\ Cont(b, i + 2) /\ Utf8From(b, i + 3)
        ELSE IF c = 237 THEN
            In(b, i + 1, 128, 159) /\ Cont(b, i + 2) /\ Utf8From(b, i + 3)
        ELSE IF c >= 225 /\ c <= 239 THEN
            Cont(b, i + 1) /\ Cont(b, i + 2) /\ Utf8From(b, i + 3)
        ELSE IF c = 240 THEN
            In(b, i + 1, 144, 191) /\ Cont(b, i + 2) /\ Cont(b, i + 3)
                /\ Utf8From(b, i + 4)
        ELSE IF c >= 241 /\ c <= 243 THEN
            Cont(b, i + 1) /\ Cont(b, i + 2) /\ Cont(b, i + 3)
                /\ Utf8From(b, i + 4)
        ELSE IF c = 244 THEN
            In(b, i + 1, 128, 143) /\ Cont(b, i + 2) /\ Cont(b, i + 3)
                /\ Utf8From(b, i + 4)
        ELSE FALSE

IsUtf8(b) == Utf8From(b, 0)

\* str::trim_matches('"')
RECURSIVE TrimStart(_)
TrimStart(s) ==
    IF Len(s) > 0 /\ s[1] = Quote THEN TrimStart(Tail(s)) ELSE s

RECURSIVE TrimEnd(_)
TrimEnd(s) ==
    IF Len(s) > 0 /\ s[Len(s)] = Quote THEN TrimEnd(SubSeq(s, 1, Len(s) - 1))
    ELSE s

trim_matches(s) == TrimEnd(TrimStart(s))

----------------------------------------------------------------------------
(* parser.rs: find_tag                                                     *)

TagNone == [found |-> FALSE, pos |-> 0, tag |-> <<>>, ok |-> TRUE]

\* FindClose taking any '>' as the end of the tag
RECURSIVE FindCloseNoQuote(_, _)
FindCloseNoQuote(b, j) ==
    IF j >= SatSub(Len(b), 1) THEN -1
    ELSE IF At(b, j) = Gt THEN j
    ELSE FindCloseNoQuote(b, j + 1)

\* the inner `for j in i + 2..len.saturating_sub(1)` (lines 11-15): the first
\* j with buffer[j] = '>' and buffer.get(j + 1) = Some('"'), or -1
RECURSIVE FindClose(_, _)
FindClose(b, j) ==
    IF j >= SatSub(Len(b), 1) THEN -1
    ELSE IF At(b, j) = Gt /\ Get(b, j + 1) = SomeV(Quote) THEN j
    ELSE FindClose(b, j + 1)

\* FindTagFrom with the loop bound `i < len`: the last bytes are indexed past
\* the end
RECURSIVE FindTagFromToEnd(_, _)
FindTagFromToEnd(b, i) ==
    IF ~(i < Len(b)) THEN TagNone
    ELSE IF ~AtOk(b, i) \/ (At(b, i) = Quote /\ ~AtOk(b, i + 1)) THEN
        [TagNone EXCEPT !.ok = FALSE]
    ELSE IF At(b, i) = Quote /\ At(b, i + 1) = Lt THEN
        LET j == FindClose(b, i + 2) IN
        IF j >= 0 THEN
            [found |-> TRUE, pos |-> i, tag |-> Slice(b, i, j + 2),
             ok |-> SliceOk(b, i, j + 2)]
        ELSE FindTagFromToEnd(b, i + 2)
    ELSE FindTagFromToEnd(b, i + 1)

\* the `while i < len.saturating_sub(3)` loop (lines 9-20) from i
RECURSIVE FindTagFrom(_, _)
FindTagFrom(b, i) ==
    IF ~(i < SatSub(Len(b), 3)) THEN TagNone
    ELSE IF ~AtOk(b, i) \/ (At(b, i) = Quote /\ ~AtOk(b, i + 1)) THEN
        [TagNone EXCEPT !.ok = FALSE]
    ELSE IF At(b, i) = Quote /\ At(b, i + 1) = Lt THEN
        LET j == FindClose(b, i + 2) IN
        IF j >= 0 THEN
            [found |-> TRUE, pos |-> i, tag |-> Slice(b, i, j + 2),
             ok |-> SliceOk(b, i, j + 2)]
        ELSE FindTagFrom(b, i + 2)
    ELSE FindTagFrom(b, i + 1)

find_tag(b, start) == FindTagFrom(b, start)

\* std::str::from_utf8(tag).unwrap_or("").trim_matches('"')
TagStr(tag) == IF IsUtf8(tag) THEN trim_matches(tag) ELSE <<>>

----------------------------------------------------------------------------
(* parser.rs: extract_filename                                             *)

\* extract_filename taking the header from bytes 0..4
extract_filename_hdr0(info) ==
    IF Len(info) < 8 THEN [filename |-> NoneV, header_data |-> NoneV, ok |-> TRUE]
    ELSE
        LET name_len == from_be_bytes(info[1], info[2], info[3], info[4])
            header_bytes == SomeV(Slice(info, 0, 4))
        IN  IF WLt(Wide(Len(info)), WAdd(name_len, 8)) THEN
                [filename |-> NoneV, header_data |-> header_bytes, ok |-> TRUE]
            ELSE
                LET n == WInt(name_len)
                    name_bytes == Slice(info, 8, 8 + n)
                IN  [filename |->
                        IF IsUtf8(name_bytes) THEN SomeV(trim_matches(name_bytes))
                        ELSE NoneV,
                     header_data |-> header_bytes,
                     ok |-> SliceOk(info, 8, 8 + n)]

\* extract_filename returning the available bytes as the name when the
\* declared length overruns the info block
extract_filename_truncating(info) ==
    IF Len(info) < 8 THEN [filename |-> NoneV, header_data |-> NoneV, ok |-> TRUE]
    ELSE
        LET name_len == from_be_bytes(info[1], info[2], info[3], info[4])
            header_bytes == SomeV(Slice(info, 4, 8))
            n == WInt(WMin(WAdd(name_len, 8), Wide(Len(info))))
            name_bytes == Slice(info, 8, n)
        IN  [filename |->
                IF IsUtf8(name_bytes) THEN SomeV(trim_matches(name_bytes))
                ELSE NoneV,
             header_data |-> header_bytes,
             ok |-> SliceOk(info, 8, n)]

extract_filename(info) ==
    IF Len(info) < 8 THEN [filename |-> NoneV, header_data |-> NoneV, ok |-> TRUE]
    ELSE
        LET name_len == from_be_bytes(info[1], info[2], info[3], info[4])
            header_bytes == SomeV(Slice(info, 4, 8))
        IN  IF WLt(Wide(Len(info)), WAdd(name_len, 8)) THEN
                [filename |-> NoneV, header_data |-> header_bytes, ok |-> TRUE]
            ELSE
                LET n == WInt(name_len)
                    name_bytes == Slice(info, 8, 8 + n)
                IN  [filename |->
                        IF IsUtf8(name_bytes) THEN SomeV(trim_matches(name_bytes))
                        ELSE NoneV,
                     header_data |-> header_bytes,
                     ok |-> SliceOk(info, 8, 8 + n)]

----------------------------------------------------------------------------
(* parser.rs: parse_file_entries, the content block (lines 103-148)        *)

\* a Wide as an integer, capped well above every buffer length of the model
WIntCap(w) == IF w.hi >= 16384 THEN 1073741824 ELSE WInt(w)

\* ReadContent ending the content at the next tag, not at the declared length
ReadContentByTag(b, cds) ==
    IF Len(b) >= cds + 8 THEN
        LET len == from_be_bytes(At(b, cds), At(b, cds + 1), At(b, cds + 2),
                                 At(b, cds + 3))
            meta == SomeV(Slice(b, cds + 4, cds + 8))
            t == find_tag(b, cds + 8)
            actual_content_end == IF t.found THEN t.pos ELSE Len(b)
        IN  [content_length |-> len,
             content_meta |-> meta,
             content |-> Slice(b, cds + 8, actual_content_end),
             content_data |-> Slice(b, cds, actual_content_end),
             next |-> actual_content_end,
             ok |-> SliceOk(b, cds + 8, actual_content_end)
                    /\ SliceOk(b, cds, actual_content_end)]
    ELSE
        [content_length |-> Wide(0),
         content_meta |-> NoneV,
         content |-> <<>>,
         content_data |-> Slice(b, cds, Min(cds, Len(b))),
         next |-> cds,
         ok |-> SliceOk(b, cds, Min(cds, Len(b)))]

\* ReadContent without the clamp `.min(buffer.len())`
ReadContentNoClamp(b, cds) ==
    IF Len(b) >= cds + 8 THEN
        LET len == from_be_bytes(At(b, cds), At(b, cds + 1), At(b, cds + 2),
                                 At(b, cds + 3))
            meta == SomeV(Slice(b, cds + 4, cds + 8))
            content_end == WAdd(len, cds + 8)
            actual_content_end == WIntCap(content_end)
        IN  [content_length |-> len,
             content_meta |-> meta,
             content |-> Slice(b, cds + 8, actual_content_end),
             content_data |-> Slice(b, cds, actual_content_end),
             next |-> actual_content_end,
             ok |-> SliceOk(b, cds + 8, actual_content_end)
                    /\ SliceOk(b, cds, actual_content_end)]
    ELSE
        [content_length |-> Wide(0),
         content_meta |-> NoneV,
         content |-> <<>>,
         content_data |-> Slice(b, cds, Min(cds, Len(b))),
         next |-> cds,
         ok |-> SliceOk(b, cds, Min(cds, Len(b)))]

\* ReadContent resuming the scan one byte after the content block
ReadContentSkipOne(b, cds) ==
    IF Len(b) >= cds + 8 THEN
        LET len == from_be_bytes(At(b, cds), At(b, cds + 1), At(b, cds + 2),
                                 At(b, cds + 3))
            meta == SomeV(Slice(b, cds + 4, cds + 8))
            content_end == WAdd(len, cds + 8)
            actual_content_end == WInt(WMin(content_end, Wide(Len(b))))
        IN  [content_length |-> len,
             content_meta |-> meta,
             content |-> Slice(b, cds + 8, actual_content_end),
             content_data |-> Slice(b, cds, actual_content_end),
             next |-> actual_content_end + 1,
             ok |-> SliceOk(b, cds + 8, actual_content_end)
                    /\ SliceOk(b, cds, actual_content_end)]
    ELSE
        [content_length |-> Wide(0),
         content_meta |-> NoneV,
         content |-> <<>>,
         content_data |-> Slice(b, cds, Min(cds, Len(b))),
         next |-> cds,
         ok |-> SliceOk(b, cds, Min(cds, Len(b)))]

\* ReadContent resuming the scan at the start of the content block
ReadContentRescan(b, cds) ==
    IF Len(b) >= cds + 8 THEN
        LET len == from_be_bytes(At(b, cds), At(b, cds + 1), At(b, cds + 2),
                                 At(b, cds + 3))
            meta == SomeV(Slice(b, cds + 4, cds + 8))
            content_end == WAdd(len, cds + 8)
            actual_content_end == WInt(WMin(content_end, Wide(Len(b))))
        IN  [content_length |-> len,
             content_meta |-> meta,
             content |-> Slice(b, cds + 8, actual_content_end),
             content_data |-> Slice(b, cds, actual_content_end),
             next |-> cds,
             ok |-> SliceOk(b, cds + 8, actual_content_end)
                    /\ SliceOk(b, cds, actual_content_end)]
    ELSE
        [content_length |-> Wide(0),
         content_meta |-> NoneV,
         content |-> <<>>,
         content_data |-> Slice(b, cds, Min(cds, Len(b))),
         next |-> cds,
         ok |-> SliceOk(b, cds, Min(cds, Len(b)))]

\* cds is content_data_start
ReadContent(b, cds) ==
    IF Len(b) >= cds + 8 THEN
        LET len == from_be_bytes(At(b, cds), At(b, cds + 1), At(b, cds + 2),
                                 At(b, cds + 3))
            meta == SomeV(Slice(b, cds + 4, cds + 8))
            content_end == WAdd(len, cds + 8)
            actual_content_end == WInt(WMin(content_end, Wide(Len(b))))
        IN  [content_length |-> len,
             content_meta |-> meta,
             content |-> Slice(b, cds + 8, actual_content_end),
             content_data |-> Slice(b, cds, actual_content_end),
             next |-> actual_content_end,
             ok |-> SliceOk(b, cds + 8, actual_content_end)
                    /\ SliceOk(b, cds, actual_content_end)]
    ELSE
        [content_length |-> Wide(0),
         content_meta |-> NoneV,
         content |-> <<>>,
         content_data |-> Slice(b, cds, Min(cds, Len(b))),
         next |-> cds,
         ok |-> SliceOk(b, cds, Min(cds, Len(b)))]

----------------------------------------------------------------------------
(* parser.rs: parse_file_entries, one iteration of `while pos < len`       *)

NoEntry ==
    [filename |-> NoneV, header_data |-> NoneV, content_length |-> Wide(0),
     content_meta |-> NoneV, content |-> <<>>, raw_content_data |-> <<>>,
     content_data_offset |-> 0]

NoEf == [filename |-> NoneV, header_data |-> NoneV, ok |-> TRUE]

\* the outcome of an iteration that does not reach line 87
Early(kind, p, ok) ==
    [kind |-> kind, pos |-> p, entry |-> NoEntry, reached |-> FALSE,
     info |-> <<>>, ef |-> NoEf, ok |-> ok]

\* lines 83-160, after the <filetransfer> and <fileinfo> tags were matched;
\* t2 is the <fileinfo> tag
IterInfo(b, t2) ==
    LET info_data_start == t2.pos + Len(t2.tag)
        t3 == find_tag(b, info_data_start)
        next_tag_after_info == IF t3.found THEN t3.pos ELSE Len(b)
        info == Slice(b, info_data_start, next_tag_after_info)
        e == extract_filename(info)
        t4 == find_tag(b, next_tag_after_info)
        ok4 == t3.ok /\ SliceOk(b, info_data_start, next_tag_after_info)
                 /\ e.ok /\ t4.ok
    IN  IF ~t4.found THEN
            [kind |-> "break", pos |-> 0, entry |-> NoEntry, reached |-> TRUE,
             info |-> info, ef |-> e, ok |-> ok4]
        ELSE IF TagStr(t4.tag) # StrContent THEN
            [kind |-> "continue", pos |-> t4.pos + Len(t4.tag), entry |-> NoEntry,
             reached |-> TRUE, info |-> info, ef |-> e, ok |-> ok4]
        ELSE
            LET content_data_start == t4.pos + Len(t4.tag)
                c == ReadContent(b, content_data_start)
            IN  [kind |-> "push",
                 pos |-> c.next,
                 entry |-> [filename |-> e.filename,
                            header_data |-> e.header_data,
                            content_length |-> c.content_length,
                            content_meta |-> c.content_meta,
                            content |-> c.content,
                            raw_content_data |-> c.content_data,
                            content_data_offset |-> content_data_start],
                 reached |-> TRUE, info |-> info, ef |-> e,
                 ok |-> ok4 /\ c.ok]

\* Iter giving up at the first tag that is not the top-level marker
IterStopAtForeignTag(b, p) ==
    LET t1 == find_tag(b, p) IN
    IF ~t1.found THEN Early("break", 0, t1.ok)
    ELSE IF ~IsUtf8(t1.tag) \/ trim_matches(t1.tag) # StrTransfer THEN
        Early("break", 0, t1.ok)
    ELSE
        LET t2 == find_tag(b, t1.pos + Len(t1.tag)) IN
        IF ~t2.found THEN Early("break", 0, t1.ok /\ t2.ok)
        ELSE IF TagStr(t2.tag) # StrInfo THEN
            Early("continue", t2.pos + Len(t2.tag), t1.ok /\ t2.ok)
        ELSE
            LET r == IterInfo(b, t2) IN [r EXCEPT !.ok = @ /\ t1.ok /\ t2.ok]

\* lines 53-161
Iter(b, p) ==
    LET t1 == find_tag(b, p) IN
    IF ~t1.found THEN Early("break", 0, t1.ok)
    ELSE IF ~IsUtf8(t1.tag) THEN Early("continue", t1.pos + 1, t1.ok)
    ELSE IF trim_matches(t1.tag) # StrTransfer THEN
        Early("continue", t1.pos + Len(t1.tag), t1.ok)
    ELSE
        LET t2 == find_tag(b, t1.pos + Len(t1.tag)) IN
        IF ~t2.found THEN Early("break", 0, t1.ok /\ t2.ok)
        ELSE IF TagStr(t2.tag) # StrInfo THEN
            Early("continue", t2.pos + Len(t2.tag), t1.ok /\ t2.ok)
        ELSE
            LET r == IterInfo(b, t2) IN [r EXCEPT !.ok = @ /\ t1.ok /\ t2.ok]

\* lines 52-163 from position p with the records `acc` pushed so far
RECURSIVE ParseFrom(_, _, _)
ParseFrom(b, p, acc) ==
    IF ~(p < Len(b)) THEN acc
    ELSE LET r == Iter(b, p) IN
        IF r.kind = "break" THEN acc
        ELSE IF r.kind = "continue" THEN ParseFrom(b, r.pos, acc)
        ELSE ParseFrom(b, r.pos, Append(acc, r.entry))

\* a parser that returns the buffer itself as its only record
parse_self_record(b) == <<[NoEntry EXCEPT !.content = b]>>

\* lines 48-164: the function as a whole, as process_autel_container calls it
parse_file_entries(b) == ParseFrom(b, 0, <<>>)

----------------------------------------------------------------------------
(* main.rs: its own parse_file_entries (lines 199-285).  find_tag (lines   *)
(* 305-323) and extract_filename (lines 287-303) of main.rs are the same   *)
(* text as in parser.rs.                                                   *)

\* lines 248-269; cds is content_data_start
MainReadContent(b, cds) ==
    LET t == find_tag(b, cds)
        next_tag_after_content == IF t.found THEN t.pos ELSE Len(b)
        content_data == Slice(b, cds, next_tag_after_content)
        ok == t.ok /\ SliceOk(b, cds, next_tag_after_content)
    IN  IF Len(content_data) >= 8 THEN
            LET len == from_be_bytes(content_data[1], content_data[2],
                                     content_data[3], content_data[4])
                meta == SomeV(Slice(content_data, 4, 8))
                content_end == WAdd(len, 8)
            IN  [content_length |-> len,
                 content_meta |-> meta,
                 content |->
                    IF WLeq(content_end, Wide(Len(content_data)))
                    THEN Slice(content_data, 8, WInt(content_end))
                    ELSE Slice(content_data, 8, Len(content_data)),
                 content_data |-> content_data,
                 next |-> next_tag_after_content,
                 ok |-> ok]
        ELSE
            [content_length |-> Wide(0),
             content_meta |-> NoneV,
             content |-> <<>>,
             content_data |-> content_data,
             next |-> next_tag_after_content,
             ok |-> ok]

\* lines 232-281, after the <filetransfer> and <fileinfo> tags were matched
MainIterInfo(b, t2) ==
    LET info_data_start == t2.pos + Len(t2.tag)
        t3 == find_tag(b, info_data_start)
        next_tag_after_info == IF t3.found THEN t3.pos ELSE Len(b)
        info == Slice(b, info_data_start, next_tag_after_info)
        e == extract_filename(info)
        t4 == find_tag(b, next_tag_after_info)
        ok4 == t3.ok /\ SliceOk(b, info_data_start, next_tag_after_info)
                 /\ e.ok /\ t4.ok
    IN  IF ~t4.found THEN
            [kind |-> "break", pos |-> 0, entry |-> NoEntry, reached |-> TRUE,
             info |-> info, ef |-> e, ok |-> ok4]
        ELSE IF TagStr(t4.tag) # StrContent THEN
            [kind |-> "continue", pos |-> t4.pos + Len(t4.tag), entry |-> NoEntry,
             reached |-> TRUE, info |-> info, ef |-> e, ok |-> ok4]
        ELSE
            LET content_data_start == t4.pos + Len(t4.tag)
                c == MainReadContent(b, content_data_start)
            IN  [kind |-> "push",
                 pos |-> c.next,
                 entry |-> [filename |-> e.filename,
                            header_data |-> e.header_data,
                            content_length |-> c.content_length,
                            content_meta |-> c.content_meta,
                            content |-> c.content,
                            raw_content_data |-> c.content_data,
                            content_data_offset |-> content_data_start],
                 reached |-> TRUE, info |-> info, ef |-> e,
                 ok |-> ok4 /\ c.ok]

\* lines 204-281
MainIter(b, p) ==
    LET t1 == find_tag(b, p) IN
    IF ~t1.found THEN Early("break", 0, t1.ok)
    ELSE IF ~IsUtf8(t1.tag) THEN Early("continue", t1.pos + 1, t1.ok)
    ELSE IF trim_matches(t1.tag) # StrTransfer THEN
        Early("continue", t1.pos + Len(t1.tag), t1.ok)
    ELSE
        LET t2 == find_tag(b, t1.pos + Len(t1.tag)) IN
        IF ~t2.found THEN Early("break", 0, t1.ok /\ t2.ok)
        ELSE IF TagStr(t2.tag) # StrInfo THEN
            Early("continue", t2.pos + Len(t2.tag), t1.ok /\ t2.ok)
        ELSE
            LET r == MainIterInfo(b, t2) IN [r EXCEPT !.ok = @ /\ t1.ok /\ t2.ok]

\* lines 203-284 from position p with the records `acc` pushed so far
RECURSIVE MainParseFrom(_, _, _)
MainParseFrom(b, p, acc) ==
    IF ~(p < Len(b)) THEN acc
    ELSE LET r == MainIter(b, p) IN
        IF r.kind = "break" THEN acc
        ELSE IF r.kind = "continue" THEN MainParseFrom(b, r.pos, acc)
        ELSE MainParseFrom(b, r.pos, Append(acc, r.entry))

\* lines 199-285
main_parse_file_entries(b) == MainParseFrom(b, 0, <<>>)

----------------------------------------------------------------------------
(* Inputs of parse_file_entries.  A part is one container entry as         *)
(* build_test_container (parser.rs, tests) frames it; nlen and clen are    *)
(* the declared lengths, which the inputs may set apart from the real ones.*)

MaxNameLen == 3
MaxContentLen == 3
MaxRawLen == 4
MaxLeadLen == 2
MaxParts == 3

\* quote, '<', '>', 'a' and a byte that is not UTF-8
Alphabet == {Quote, Lt, Gt, 97, 255}

SeqsUpTo(S, n) == UNION {[1..k -> S] : k \in 0..n}

U32Max == [hi |-> 65535, lo |-> 65535]

Part(name, header, meta, content, nlen, clen) ==
    [name |-> name, header |-> header, meta |-> meta, content |-> content,
     nlen |-> nlen, clen |-> clen]

ExactPart(name, header, meta, content) ==
    Part(name, header, meta, content, Wide(Len(name)), Wide(Len(content)))

Build(p) ==
    TagTransfer \o TagInfo \o to_be_bytes(p.nlen) \o p.header \o p.name
        \o TagContent \o to_be_bytes(p.clen) \o p.meta \o p.content

RECURSIVE BuildAll(_)
BuildAll(ps) == IF ps = <<>> THEN <<>> ELSE Build(Head(ps)) \o BuildAll(Tail(ps))

\* cut < 0: the whole buffer; otherwise its first `cut` bytes
BuildInput(in) ==
    LET full == in.lead \o BuildAll(in.parts) IN
    IF in.cut < 0 THEN full ELSE SubSeq(full, 1, Min(in.cut, Len(full)))

Header0 == <<253, 206, 105, 72>>
Meta0 == <<51, 168, 59, 31>>
Headers == {Header0, <<34, 60, 62, 34>>, <<1, 2, 34, 60>>, <<0, 0, 0, 34>>}
Metas == {Meta0, <<34, 60, 62, 34>>}

\* "test.txt" and the two-byte character U+00E9
Names ==
    SeqsUpTo(Alphabet, MaxNameLen)
        \cup {<<116, 101, 115, 116, 46, 116, 120, 116>>, <<195, 169>>}

Nested == Build(ExactPart(<<110>>, Header0, Meta0, <<99>>))

Contents ==
    SeqsUpTo(Alphabet \ {255}, MaxContentLen)
        \cup {TagTransfer, TagInfo, TagContent, TagTransfer \o TagInfo, Nested,
              <<120, 34, 60, 102, 97, 107, 101, 62, 34, 121>>}

Declared(n) == {Wide(n), Wide(n + 1), Wide(n + 5), Wide(SatSub(n, 1)), U32Max}

SmallParts ==
    {ExactPart(<<97>>, Header0, Meta0, <<>>),
     ExactPart(<<98, 46, 106>>, Header0, Meta0, <<123, 125>>),
     ExactPart(<<99>>, <<1, 2, 3, 4>>, Meta0, TagTransfer),
     ExactPart(<<>>, Header0, <<5, 6, 7, 8>>, Nested)}

Leads ==
    SeqsUpTo(Alphabet, MaxLeadLen)
        \cup {<<0, 0, 0>>, <<34, 60, 120, 62, 34>>, <<34, 60, 255, 62, 34>>,
              TagTransfer, TagInfo, TagTransfer \o TagInfo}

Whole(parts) == [lead |-> <<>>, parts |-> parts, cut |-> -1]

NameInputs ==
    {Whole(<<ExactPart(n, h, Meta0, <<120, 121>>)>>) : n \in Names, h \in Headers}
        \cup {Whole(<<ExactPart(<<97>>, Header0, m, c)>>) :
                m \in Metas, c \in {<<>>, <<120, 121>>}}

ContentInputs ==
    UNION {{Whole(<<Part(<<97>>, Header0, Meta0, c, Wide(1), d)>>) :
                d \in Declared(Len(c))} : c \in Contents}

NameLenInputs ==
    UNION {{Whole(<<Part(n, Header0, Meta0, <<120>>, d, Wide(1))>>) :
                d \in Declared(Len(n))} : n \in SeqsUpTo(Alphabet, MaxNameLen - 1)}

ConcatInputs ==
    UNION {{Whole(ps) : ps \in [1..k -> SmallParts]} : k \in 2..MaxParts}

CutInputs ==
    UNION {{[lead |-> <<>>, parts |-> <<p>>, cut |-> k] : k \in 0..Len(Build(p))} :
            p \in SmallParts}

LeadInputs ==
    {[lead |-> l, parts |-> <<p>>, cut |-> -1] : l \in Leads, p \in SmallParts}

RawInputs ==
    {[lead |-> l, parts |-> <<>>, cut |-> -1] :
        l \in SeqsUpTo(Alphabet \ {255}, MaxRawLen)}

Inputs ==
    NameInputs \cup ContentInputs \cup NameLenInputs \cup ConcatInputs
        \cup CutInputs \cup LeadInputs \cup RawInputs

----------------------------------------------------------------------------
(* parse_file_entries as a state machine: one action per way an iteration  *)
(* of the while loop ends.                                                 *)

DetectIdle == data = <<>> /\ hint = NoneV /\ file_type = "idle" /\ dok = TRUE

ZipIdle == zdata = <<>> /\ zres = NoneV /\ zpc = "idle"

ProcIdle == stack = <<>> /\ trace = <<>> /\ status = "idle"

FindIdle == fbuffer = <<>> /\ fstart = 0 /\ fres = TagNone /\ fpc = "idle"

ParseInit ==
    /\ input \in Inputs
    /\ buffer = BuildInput(input)
    /\ pos = 0
    /\ entries = <<>>
    /\ pc = "loop"
    /\ info_data = <<>>
    /\ ef = NoEf
    /\ DetectIdle
    /\ ZipIdle
    /\ ProcIdle
    /\ FindIdle

\* line 52: the loop condition fails, line 163 returns `entries`
LoopExit ==
    /\ pc = "loop"
    /\ ~(pos < Len(buffer))
    /\ pc' = "done"
    /\ UNCHANGED <<input, buffer, pos, entries, info_data, ef>>
    /\ UNCHANGED <<detectVars, zipVars, procVars, findVars>>

Locals(r) ==
    /\ info_data' = IF r.reached THEN r.info ELSE info_data
    /\ ef' = IF r.reached THEN r.ef ELSE ef

\* lines 55, 73, 93: `None => break`, then line 163
IterBreak ==
    /\ pc = "loop"
    /\ pos < Len(buffer)
    /\ LET r == Iter(buffer, pos) IN
        /\ r.kind = "break"
        /\ pc' = IF r.ok THEN "done" ELSE "panic"
        /\ Locals(r)
    /\ UNCHANGED <<input, buffer, pos, entries>>
    /\ UNCHANGED <<detectVars, zipVars, procVars, findVars>>

\* lines 61-62, 67-68, 79-80, 99-100: `pos = ...; continue`
IterContinue ==
    /\ pc = "loop"
    /\ pos < Len(buffer)
    /\ LET r == Iter(buffer, pos) IN
        /\ r.kind = "continue"
        /\ pos' = r.pos
        /\ pc' = IF r.ok THEN "loop" ELSE "panic"
        /\ Locals(r)
    /\ UNCHANGED <<input, buffer, entries>>
    /\ UNCHANGED <<detectVars, zipVars, procVars, findVars>>

\* lines 150-160: `entries.push(..); pos = next_tag_after_content`
IterPush ==
    /\ pc = "loop"
    /\ pos < Len(buffer)
    /\ LET r == Iter(buffer, pos) IN
        /\ r.kind = "push"
        /\ entries' = Append(entries, r.entry)
        /\ pos' = r.pos
        /\ pc' = IF r.ok THEN "loop" ELSE "panic"
        /\ Locals(r)
    /\ UNCHANGED <<input, buffer>>
    /\ UNCHANGED <<detectVars, zipVars, procVars, findVars>>

ParseNext == LoopExit \/ IterBreak \/ IterContinue \/ IterPush

Spec == ParseInit /\ [][ParseNext]_vars

----------------------------------------------------------------------------
(* file_types.rs: detect_file_type                                         *)

MarkerPosLimit == 100
ScanLimit == 100

\* b"\"<filetransfer>\"".as_slice().get(..14): the quote and "<filetransfer"
Marker14 == SubSeq(TagTransfer, 1, 14)

\* sub occurs in s at the 0-based offset i
OccursAt(s, sub, i) ==
    i >= 0 /\ i + Len(sub) <= Len(s) /\ SubSeq(s, i + 1, i + Len(sub)) = sub

\* str::contains
Contains(s, sub) == \E i \in 0..Len(s) : OccursAt(s, sub, i)

\* data.windows(n).position(|w| w == sub) for a sub of n bytes: the first
\* offset, or -1 for None
Position(s, sub) ==
    IF Contains(s, sub) THEN
        CHOOSE i \in 0..Len(s) :
            OccursAt(s, sub, i) /\ \A k \in 0..(i - 1) : ~OccursAt(s, sub, k)
    ELSE -1

\* lines 26-33
MarkerWindow(d) ==
    LET p == Position(d, Marker14) IN p >= 0 /\ p < MarkerPosLimit

\* the scan running over every offset of the buffer
ScanBoundWholeBuffer(d) == Min(ScanLimit, Len(d))

\* line 35: `100.min(data.len().saturating_sub(16))`
ScanBound(d) == Min(ScanLimit, SatSub(Len(d), 16))

\* lines 35-43; `16.min(data.len() - i)`
MarkerScan(d) ==
    \E i \in 0..(ScanBound(d) - 1) :
        /\ Slice(d, i, i + 2) = <<Quote, Lt>>
        /\ LET w == Slice(d, i, i + Min(16, Len(d) - i)) IN
            IsUtf8(w) /\ Contains(w, StrTransfer)

\* every slice of lines 35-43 lies in `data`
MarkerScanOk(d) ==
    \A i \in 0..(ScanBound(d) - 1) :
        /\ SliceOk(d, i, i + 2)
        /\ Len(d) - i >= 0
        /\ SliceOk(d, i, i + Min(16, Len(d) - i))

\* lines 25-44
ContainerCheck(d) == Len(d) >= 16 /\ (MarkerWindow(d) \/ MarkerScan(d))

\* lines 46-79: the tag of the first row that matches, or "none"
MagicCheck(d) ==
    IF Slice(d, 0, 4) = <<80, 75, 3, 4>> THEN "Zip"
    ELSE IF Len(d) >= 2 /\ Slice(d, 0, 2) = <<31, 139>> THEN "Gzip"
    ELSE IF Slice(d, 0, 4) = <<52, 18, 239, 190>> THEN
        IF Len(d) >= 5 /\ At(d, 4) = 14 THEN "UpgRcMcu" ELSE "UpgGimbal"
    ELSE IF Slice(d, 0, 4) = <<85, 80, 70, 83>> THEN "UpgFcs"
    ELSE IF Slice(d, 0, 4) = <<2, 170, 85, 170>> THEN "UpgBms"
    ELSE IF Slice(d, 0, 4) = <<0, 0, 0, 0>> /\ Len(d) >= 5
            /\ At(d, 4) >= 20 /\ At(d, 4) <= 23 THEN "UpgEsc"
    ELSE IF Len(d) >= 8 /\ Slice(d, 0, 8) = <<64, 84, 68, 49, 48, 53, 48, 120>>
        THEN "GpsBin"
    ELSE "none"

\* str::ends_with
EndsWith(s, suffix) ==
    Len(s) >= Len(suffix) /\ SubSeq(s, Len(s) - Len(suffix) + 1, Len(s)) = suffix

ExtJson == <<46, 106, 115, 111, 110>>
ExtZip == <<46, 122, 105, 112>>

\* lines 81-89
ExtCheck(filename) ==
    IF filename.some /\ EndsWith(filename.val, ExtJson) THEN "Json"
    ELSE IF filename.some /\ EndsWith(filename.val, ExtZip) THEN "Zip"
    ELSE "none"

\* u8::is_ascii_whitespace: space, tab, line feed, form feed, carriage return
IsAsciiWhitespace(b) == b \in {32, 9, 10, 12, 13}

\* lines 91-104
TextCheck(d) ==
    IF IsUtf8(d) THEN
        LET first == {i \in 0..(Len(d) - 1) : ~IsAsciiWhitespace(At(d, i))}
            trimmed == IF first = {} THEN 0
                       ELSE CHOOSE i \in first : \A k \in first : i <= k
        IN  IF Len(d) > trimmed /\ (At(d, trimmed) = 123 \/ At(d, trimmed) = 91)
            THEN "Json" ELSE "Text"
    ELSE "Unknown"

\* lines 4-16: the closed set of tags
FileTypes ==
    {"AutelContainer", "Zip", "Gzip", "Json", "UpgGimbal", "UpgFcs", "UpgBms",
     "UpgEsc", "UpgRcMcu", "GpsBin", "Text", "Unknown"}

\* detect_file_type without the length check of lines 19-21
detect_without_length_check(d, filename) ==
    IF ContainerCheck(d) THEN "AutelContainer"
    ELSE IF MagicCheck(d) # "none" THEN MagicCheck(d)
    ELSE IF ExtCheck(filename) # "none" THEN ExtCheck(filename)
    ELSE TextCheck(d)

\* detect_file_type looking at the magic bytes before the container marker
detect_magic_first(d, filename) ==
    IF Len(d) < 4 THEN "Unknown"
    ELSE IF MagicCheck(d) # "none" THEN MagicCheck(d)
    ELSE IF ContainerCheck(d) THEN "AutelContainer"
    ELSE IF ExtCheck(filename) # "none" THEN ExtCheck(filename)
    ELSE TextCheck(d)

\* lines 19-105
detect_file_type(d, filename) ==
    IF Len(d) < 4 THEN "Unknown"
    ELSE IF ContainerCheck(d) THEN "AutelContainer"
    ELSE IF MagicCheck(d) # "none" THEN MagicCheck(d)
    ELSE IF ExtCheck(filename) # "none" THEN ExtCheck(filename)
    ELSE TextCheck(d)

\* every index of lines 19-105 lies in `data`: the marker scan, and the
\* magic rows, which read data[0..4] once the length is known to be >= 4
DetectOk(d) ==
    Len(d) < 4 \/ ((Len(d) >= 16 => MarkerScanOk(d)) /\ SliceOk(d, 0, 4))

----------------------------------------------------------------------------
(* Inputs of detect_file_type: magic bytes, padding, a marker, a tail      *)

MaxPad == 2
MaxTailLen == 2
MaxShortLen == 3

Pad(n) == [i \in 1..n |-> 120]

\* paddings that put a marker at the start, and around offset 100
PadLens ==
    (0..MaxPad)
        \cup ((MarkerPosLimit - Len(TagTransfer) - 8 - MaxPad)
                ..(MarkerPosLimit + MaxPad))

Magics ==
    {<<80, 75, 3, 4>>, <<31, 139, 8, 0>>, <<52, 18, 239, 190, 14>>,
     <<52, 18, 239, 190, 0>>, <<85, 80, 70, 83>>, <<2, 170, 85, 170>>,
     <<0, 0, 0, 0, 19>>, <<0, 0, 0, 0, 20>>, <<0, 0, 0, 0, 23>>,
     <<0, 0, 0, 0, 24>>, <<0, 0, 0, 0>>, <<64, 84, 68, 49, 48, 53, 48, 120>>}

\* text, JSON after white space, white space alone, bytes that are not UTF-8
Plains ==
    {<<97, 98, 99, 100>>, <<32, 10, 123, 125>>, <<9, 13, 12, 91>>,
     <<32, 32, 32, 32>>, <<222, 173, 190, 239>>, <<11, 123, 125, 32>>}

\* the quoted tag, its text without quotes, its first 14 bytes followed by
\* other bytes, the text after a quote and '<', the text after another byte
Markers ==
    {TagTransfer, StrTransfer, Marker14 \o <<88, 89>>,
     <<Quote, Lt>> \o StrTransfer, <<120>> \o StrTransfer \o <<120>>}

Tails == SeqsUpTo({0, 122, 255}, MaxTailLen)

\* none, "a.json", "a.zip", "a.bin", "json"
Hints ==
    {NoneV, SomeV(<<97>> \o ExtJson), SomeV(<<97>> \o ExtZip),
     SomeV(<<97, 46, 98, 105, 110>>), SomeV(<<106, 115, 111, 110>>)}

MarkerData ==
    {m \o Pad(n) \o k \o t :
        m \in {<<>>, <<80, 75, 3, 4>>, <<31, 139, 8, 0>>, <<97, 98, 99, 100>>},
        n \in PadLens, k \in Markers, t \in {<<>>, <<122, 122>>}}

MagicData == {m \o t : m \in Magics \cup Plains, t \in Tails}

ShortData == SeqsUpTo({0, 80, 123}, MaxShortLen)

DetectInputs == MarkerData \cup MagicData \cup ShortData

----------------------------------------------------------------------------
(* detect_file_type as a state machine: the call and its return            *)

ParseIdle ==
    /\ input = [lead |-> <<>>, parts |-> <<>>, cut |-> -1]
    /\ buffer = <<>> /\ pos = 0 /\ entries = <<>> /\ pc = "idle"
    /\ info_data = <<>> /\ ef = NoEf

DetectInit ==
    /\ data \in DetectInputs
    /\ hint \in Hints
    /\ file_type = "pending"
    /\ dok = TRUE
    /\ ParseIdle
    /\ ZipIdle
    /\ ProcIdle
    /\ FindIdle

Detect ==
    /\ file_type = "pending"
    /\ file_type' = detect_file_type(data, hint)
    /\ dok' = DetectOk(data)
    /\ UNCHANGED <<data, hint>>
    /\ UNCHANGED <<parseVars, zipVars, procVars, findVars>>

DetectNext == Detect

SpecDetect == DetectInit /\ [][DetectNext]_vars

----------------------------------------------------------------------------
(* zip_utils.rs: slice_to_eocd                                             *)

\* line 5: b"PK\x05\x06"
EocdSig == <<80, 75, 5, 6>>
\* lines 4, 5, 7: the size of the record without its comment
EocdLen == 22

\* the two bytes of the comment length read in the other order
from_be_bytes16(b0, b1) == b0 * 256 + b1

\* line 6: u16::from_le_bytes([b0, b1]) as usize
from_le_bytes(b0, b1) == b0 + b1 * 256

\* line 5 at offset i: the signature test
EocdAt(d, i) ==
    Len(d) >= i + 4 /\ Slice(d, i, i + 4) = EocdSig /\ Len(d) >= i + EocdLen

\* lines 6-12 at offset i: the slice returned
EocdSlice(d, i) ==
    LET comment_len == from_le_bytes(At(d, i + 20), At(d, i + 21))
        end == i + EocdLen + comment_len
    IN  IF end <= Len(d) THEN SomeV(Slice(d, 0, end)) ELSE SomeV(d)

\* lines 4-15 scanning upwards: the first record wins
RECURSIVE ScanUp(_, _)
ScanUp(d, i) ==
    IF i > SatSub(Len(d), EocdLen) THEN NoneV
    ELSE IF EocdAt(d, i) THEN EocdSlice(d, i)
    ELSE ScanUp(d, i + 1)

\* line 4 `.rev()`, lines 5-15: the loop from offset i downwards
RECURSIVE ScanDown(_, _)
ScanDown(d, i) ==
    IF i < 0 THEN NoneV
    ELSE IF EocdAt(d, i) THEN EocdSlice(d, i)
    ELSE ScanDown(d, i - 1)

slice_to_first_eocd(d) == ScanUp(d, 0)

\* lines 3-16
slice_to_eocd(d) == ScanDown(d, SatSub(Len(d), EocdLen))

----------------------------------------------------------------------------
(* Inputs of slice_to_eocd: records with comments, alone, in pairs, cut,   *)
(* and with the signature in their last bytes                              *)

MaxComment == 2
MaxZipPad == 2

Zeros(n) == [i \in 1..n |-> 0]

\* a record declaring c comment bytes, followed by `comment`
Eocd(c, comment) == EocdSig \o Zeros(16) \o <<c % 256, c \div 256>> \o comment

Comments == SeqsUpTo({0, 80}, MaxComment)
CommentLens == (0..(MaxComment + 1)) \cup {256}
ZipPads == {Pad(n) : n \in 0..MaxZipPad}
LocalHeader == <<80, 75, 3, 4>>

SingleZips ==
    {l \o Eocd(c, k) \o t :
        l \in {<<>>, LocalHeader}, c \in CommentLens, k \in Comments, t \in ZipPads}

DoubleZips ==
    {Eocd(c1, k1) \o t \o Eocd(c2, k2) :
        c1 \in {0, 1}, k1 \in {<<>>, <<80>>}, t \in ZipPads,
        c2 \in 0..(MaxComment + 1), k2 \in {<<>>, <<80>>, <<80, 0>>}}

\* the signature in the comment or the fields of a record, or after it
LateSigZips ==
    {Eocd(c, EocdSig \o t) : c \in {0, 4, 6}, t \in ZipPads}
        \cup {EocdSig \o Eocd(c, t) : c \in {0, 1}, t \in ZipPads}
        \cup {Eocd(c, <<>>) \o t \o EocdSig \o Zeros(n) :
                c \in {0, 4}, t \in ZipPads, n \in {0, 17, 18}}

\* buffers without a record: a cut record, bytes without the signature
NoRecordZips ==
    {SubSeq(l \o Eocd(0, <<>>), 1, n) :
        l \in {<<>>, LocalHeader}, n \in 0..(EocdLen - 1)}
        \cup {LocalHeader \o Pad(n) : n \in (EocdLen - 6)..(EocdLen - 2)}
        \cup {<<80, 75, 5, 7>> \o Zeros(18 + n) : n \in 0..MaxZipPad}

ZipInputs == SingleZips \cup DoubleZips \cup LateSigZips \cup NoRecordZips

----------------------------------------------------------------------------
(* slice_to_eocd as a state machine: the call and its return               *)

ZipInit ==
    /\ zdata \in ZipInputs
    /\ zres = NoneV
    /\ zpc = "call"
    /\ ParseIdle
    /\ DetectIdle
    /\ ProcIdle
    /\ FindIdle

Locate ==
    /\ zpc = "call"
    /\ zres' = slice_to_eocd(zdata)
    /\ zpc' = "ret"
    /\ UNCHANGED zdata
    /\ UNCHANGED <<parseVars, detectVars, procVars, findVars>>

ZipNext == Locate

SpecZip == ZipInit /\ [][ZipNext]_vars

----------------------------------------------------------------------------
(* std::path as processor.rs uses it, on Unix: paths are byte strings,     *)
(* '/' separates components, a trailing "/" or "/." is not a component     *)

Slash == 47
Dot == 46

\* Path::has_root
HasRoot(p) == Len(p) > 0 /\ p[1] = Slash

\* Path::join: an absolute q replaces p
Join(p, q) ==
    IF HasRoot(q) THEN q
    ELSE IF p = <<>> \/ p[Len(p)] = Slash THEN p \o q
    ELSE p \o <<Slash>> \o q

\* the length of the first n bytes of p without trailing "/" and "/."
RECURSIVE TrimmedLen(_, _)
TrimmedLen(p, n) ==
    IF n > 0 /\ p[n] = Slash THEN TrimmedLen(p, n - 1)
    ELSE IF n > 1 /\ p[n] = Dot /\ p[n - 1] = Slash THEN TrimmedLen(p, n - 2)
    ELSE n

\* the index of the last '/' among the first n bytes of p, or 0
RECURSIVE LastSlash(_, _)
LastSlash(p, n) == IF n = 0 \/ p[n] = Slash THEN n ELSE LastSlash(p, n - 1)

\* the last component of p
LastComp(p) ==
    LET e == TrimmedLen(p, Len(p)) IN SubSeq(p, LastSlash(p, e) + 1, e)

\* Path::file_name: None for "", "/", "." and a path ending in ".."
file_name(p) ==
    LET c == LastComp(p) IN
    IF c = <<>> \/ c = <<Dot>> \/ c = <<Dot, Dot>> THEN NoneV ELSE SomeV(c)

\* Path::parent: None for "" and "/"
parent(p) ==
    LET e == TrimmedLen(p, Len(p))
        q == TrimmedLen(p, LastSlash(p, e))
    IN  IF e = 0 THEN NoneV
        ELSE IF q = 0 /\ HasRoot(p) THEN SomeV(<<Slash>>)
        ELSE SomeV(SubSeq(p, 1, q))

\* the index of the last '.' among the first n bytes of c, or 0
RECURSIVE LastDot(_, _)
LastDot(c, n) == IF n = 0 \/ c[n] = Dot THEN n ELSE LastDot(c, n - 1)

\* Path::file_stem: the file name up to its last '.', whole if it has no
\* '.' or only a leading one
file_stem(p) ==
    LET f == file_name(p) IN
    IF ~f.some THEN NoneV
    ELSE LET k == LastDot(f.val, Len(f.val)) IN
        IF k <= 1 THEN f ELSE SomeV(SubSeq(f.val, 1, k - 1))

\* lines 165-172 and 258-265: the directory named after the container
dir_name(name, fallback) ==
    IF ~name.some THEN fallback
    ELSE IF file_stem(name.val).some THEN file_stem(name.val).val
    ELSE name.val

\* line 172: "extracted"; line 265: "zip_contents"
Extracted == <<101, 120, 116, 114, 97, 99, 116, 101, 100>>
ZipContents == <<122, 105, 112, 95, 99, 111, 110, 116, 101, 110, 116, 115>>

----------------------------------------------------------------------------
(* processor.rs: process_file, process_autel_container, process_zip.       *)
(*                                                                         *)
(* The recursion is kept as a stack of frames.  A frame "file" is a call   *)
(* of process_file that has not started; it turns into a frame "container" *)
(* or "zip" while the loop over its children runs.  `trace` lists what     *)
(* was done, in order.  The archive decoder (the zip crate) and the        *)
(* filesystem are not part of the program: what the decoder yields is      *)
(* chosen from Archives, and each filesystem operation may fail.  A        *)
(* failed operation returns through every `?` of the callers (lines 31,    *)
(* 34, 204, 334), which ends the root call with Err.                       *)

\* an entry of `trace`
Event(ev, id) ==
    [ev |-> ev, id |-> id, depth |-> 0, name |-> NoneV, out |-> NoneV,
     path |-> <<>>, bytes |-> <<>>, what |-> "", huge |-> FALSE, n |-> 0]

\* lines 12-17: a call of process_file made by the call `parent`
CallEv(parent_id, d, name, out, depth) ==
    [Event("call", parent_id) EXCEPT
        !.bytes = d, !.name = name, !.out = out, !.depth = depth]

\* line 143, and lines 158, 210, 241, 250, 356 returning through 31 and 34
RetEv(id) == Event("ret", id)

\* lines 286-304: what archive.by_index(i) gave
MemberEv(id, m) ==
    [Event("member", id) EXCEPT
        !.name = SomeV(m.name), !.bytes = m.contents, !.what = m.what,
        !.huge = m.huge]

\* lines 246-254: what ZipArchive::new gave: Err, or an archive of n members
OpenFailEv(id) == Event("openfail", id)
ArchiveEv(id, n) == [Event("archive", id) EXCEPT !.n = n]

\* fs::create_dir_all, File::create, write_all
FsEv(op, id, path, bytes) == [Event(op, id) EXCEPT !.path = path, !.bytes = bytes]

\* line 208
SummaryEv(id) == Event("summary", id)

Frame(op, id, d, name, out, depth) ==
    [op |-> op, id |-> id, data |-> d, name |-> name, out |-> out,
     depth |-> depth, items |-> <<>>, i |-> 0, dir |-> NoneV]

\* nothing is written
PersistNothing(f) == <<>>

\* lines 38-47 (and 54-63, 85-94, 111-120, 128-137, 231-240, 274-283):
\* the raw bytes written at output_dir/filename
PersistOps(f) ==
    IF f.out.some /\ f.name.some THEN
        LET output_path == Join(f.out.val, f.name.val) IN
        (IF parent(output_path).some
            THEN <<FsEv("mkdir", f.id, parent(output_path).val, <<>>)>>
            ELSE <<>>)
            \o <<FsEv("create", f.id, output_path, <<>>),
                 FsEv("write", f.id, output_path, f.data)>>
    ELSE <<>>

\* lines 164-178 and 257-271: `extract_dir` and the directory made for it
ExtractDir(f, fallback) ==
    IF f.out.some THEN SomeV(Join(f.out.val, dir_name(f.name, fallback)))
    ELSE NoneV

ExtractOps(f, fallback) ==
    IF f.out.some
        THEN <<FsEv("mkdir", f.id, ExtractDir(f, fallback).val, <<>>)>>
        ELSE <<>>

\* lines 307-315
sub_output(dir, name) ==
    IF ~dir.some THEN NoneV
    ELSE IF parent(name).some /\ parent(name).val # <<>>
        THEN SomeV(Join(dir.val, parent(name).val))
    ELSE dir

\* lines 318-321
just_filename(name) == IF file_name(name).some THEN file_name(name).val ELSE name

\* lines 345-352
LeafOps(f, m) ==
    IF f.dir.some THEN
        LET outpath == Join(f.dir.val, m.name) IN
        (IF parent(outpath).some
            THEN <<FsEv("mkdir", f.id, parent(outpath).val, <<>>)>>
            ELSE <<>>)
            \o <<FsEv("create", f.id, outpath, <<>>),
                 FsEv("write", f.id, outpath, m.contents)>>
    ELSE <<>>

\* line 326
Recursive(t) == t = "AutelContainer" \/ t = "Zip"

Top == stack[Len(stack)]
Pop == SubSeq(stack, 1, Len(stack) - 1)

\* One step of the top frame: the events `pre`, then the filesystem
\* operations `ops` in order, then the events `post`, leaving the stack
\* `next`.  If an operation fails, the ones before it took effect and the
\* failure is returned by every caller.
Step(pre, ops, post, next) ==
    \E k \in 0..Len(ops) :
        IF k < Len(ops) THEN
            /\ trace' = trace \o pre \o SubSeq(ops, 1, k)
                            \o <<[ops[k + 1] EXCEPT !.what = "failed"]>>
            /\ stack' = <<>>
            /\ status' = "err"
        ELSE
            /\ trace' = trace \o pre \o ops \o post
            /\ stack' = next
            /\ status' = IF next = <<>> THEN "ok" ELSE "run"

Idle == ParseIdle /\ DetectIdle /\ ZipIdle /\ FindIdle
Others == <<parseVars, detectVars, zipVars, findVars>>

Pending == status = "run" /\ Top.op = "file"
TypeOfTop == detect_file_type(Top.data, Top.name)

----------------------------------------------------------------------------
(* Inputs of process_file, and what the archive decoder may yield          *)

MaxDepth == 1

TextLeaf == <<97, 98, 99, 100>>
JsonLeaf == <<123, 125, 32, 32>>
GzipLeaf == <<31, 139, 8, 0>>
FcsLeaf == <<85, 80, 70, 83>>
BinLeaf == <<222, 173, 190, 239>>
\* archive magic without a directory record, and with one
NoEocdZip == LocalHeader \o <<97, 98>>
ZipFile == LocalHeader \o Eocd(0, <<>>)
\* the container tag alone: no entry can be parsed from it
BadContainer == TagTransfer

\* "t.txt", "a.bin", "in.bin", "z.zip", "bad"
NameT == <<116, 46, 116, 120, 116>>
NameA == <<97, 46, 98, 105, 110>>
NameIn == <<105, 110, 46, 98, 105, 110>>
NameZ == <<122, 46, 122, 105, 112>>
NameBad == <<98, 97, 100>>

Entry(name, content) == ExactPart(name, Header0, Meta0, content)

\* one text entry
Inner == Build(Entry(NameT, TextLeaf))
\* a gzip entry, a container, an archive
Outer ==
    BuildAll(<<Entry(NameA, GzipLeaf), Entry(NameIn, Inner), Entry(NameZ, ZipFile)>>)
\* an entry whose content is a container without entries, then a text entry
BadFirst == BuildAll(<<Entry(NameBad, BadContainer), Entry(NameT, TextLeaf)>>)
\* an entry whose declared name length overruns the info block: no name
Unnamed == Build(Part(NameA, Header0, Meta0, TextLeaf, Wide(9), Wide(4)))
\* the three tags and nothing else: one record without name and content
Bare == TagTransfer \o TagInfo \o TagContent
\* "/e" and "../../x": an absolute name and one that climbs out
NameAbs == <<47, 101>>
NameUp == <<46, 46, 47, 46, 46, 47, 120>>
Escaping == BuildAll(<<Entry(NameAbs, TextLeaf), Entry(NameUp, TextLeaf)>>)

RootData ==
    {TextLeaf, JsonLeaf, GzipLeaf, FcsLeaf, BinLeaf, <<>>, NoEocdZip, ZipFile,
     BadContainer, Inner, Outer, BadFirst, Unnamed, Bare, Escaping}

\* none, "r.bin"
RootNames == {NoneV, SomeV(<<114, 46, 98, 105, 110>>)}
\* none, "o"
Outs == {NoneV, SomeV(<<111>>)}
RootDepths == {0, 3}

\* a member as archive.by_index gives it: "nofile" is Err at line 286,
\* "unreadable" is Err at line 301; `huge` is a declared size above
\* isize::MAX, for which Vec::with_capacity (line 300) panics
Member(name, contents, what, huge) ==
    [name |-> name, contents |-> contents, what |-> what, huge |-> huge]

File(name, contents) == Member(name, contents, "file", FALSE)

\* "d/", "d/t.txt", "u.bin", "c.bin", "n/z.zip", "h.zip", "big.bin"
MDir == File(<<100, 47>>, <<>>)
MText == File(<<100, 47, 116, 46, 116, 120, 116>>, TextLeaf)
MNoFile == Member(<<>>, <<>>, "nofile", FALSE)
MUnreadable == Member(<<117, 46, 98, 105, 110>>, <<>>, "unreadable", FALSE)
MContainer == File(<<99, 46, 98, 105, 110>>, Inner)
MBad == File(NameBad, BadContainer)
MZip == File(<<110, 47, 122, 46, 122, 105, 112>>, ZipFile)
MHintZip == File(<<104, 46, 122, 105, 112>>, TextLeaf)
MHuge == Member(<<98, 105, 103, 46, 98, 105, 110>>, TextLeaf, "file", TRUE)
MHugeDir == Member(<<100, 47>>, <<>>, "file", TRUE)
\* "../../u.txt", "/a.txt"
MUp == File(<<46, 46, 47, 46, 46, 47, 117, 46, 116, 120, 116>>, TextLeaf)
MAbs == File(<<47, 97, 46, 116, 120, 116>>, TextLeaf)

\* archives without an archive among their members
FlatArchives ==
    {<<>>, <<MDir, MText>>, <<MNoFile, MText>>, <<MUnreadable, MContainer>>,
     <<MHintZip, MBad, MText>>, <<MHugeDir, MHuge, MText>>, <<MUp, MAbs>>}

Archives == FlatArchives \cup {<<MZip, MText>>, <<MUnreadable, MHuge, MText>>}

\* the decoder yields archives in archives down to MaxDepth levels
ArchivesAt(depth, base) == IF depth - base < MaxDepth THEN Archives ELSE FlatArchives

----------------------------------------------------------------------------
(* process_file as a state machine                                         *)

ProcInit ==
    /\ \E d \in RootData, n \in RootNames, o \in Outs, k \in RootDepths :
        /\ stack = <<Frame("file", 1, d, n, o, k)>>
        /\ trace = <<CallEv(0, d, n, o, k)>>
    /\ status = "run"
    /\ Idle

\* lines 36-141: Gzip, Json, Text, the firmware tags, Unknown
Terminal ==
    /\ Pending
    /\ ~Recursive(TypeOfTop)
    /\ Step(<<>>, PersistOps(Top), <<RetEv(Top.id)>>, Pop)
    /\ UNCHANGED Others

\* lines 30-31, 154-159: no entries
ContainerEmpty ==
    /\ Pending
    /\ TypeOfTop = "AutelContainer"
    /\ parse_file_entries(Top.data) = <<>>
    /\ Step(<<>>, <<>>, <<RetEv(Top.id)>>, Pop)
    /\ UNCHANGED Others

\* lines 30-31, 154-178: the extraction directory, then the loop
ContainerOpen ==
    /\ Pending
    /\ TypeOfTop = "AutelContainer"
    /\ parse_file_entries(Top.data) # <<>>
    /\ Step(<<>>, ExtractOps(Top, Extracted), <<>>,
            Append(Pop, [Top EXCEPT !.op = "container",
                                    !.items = parse_file_entries(Top.data),
                                    !.dir = ExtractDir(Top, Extracted)]))
    /\ UNCHANGED Others

\* lines 180-205: one entry, up to the call of line 204
ContainerEntry ==
    /\ status = "run" /\ Top.op = "container"
    /\ Top.i < Len(Top.items)
    /\ LET entry == Top.items[Top.i + 1]
           id == Len(trace) + 1
       IN Step(<<>>, <<>>,
               <<CallEv(Top.id, entry.content, entry.filename, Top.dir, Top.depth + 1)>>,
               Append(Pop, [Top EXCEPT !.i = @ + 1])
                   \o <<Frame("file", id, entry.content, entry.filename, Top.dir,
                              Top.depth + 1)>>)
    /\ UNCHANGED Others

\* the loop ends without the summary
ContainerDoneNoSummary ==
    /\ status = "run" /\ Top.op = "container"
    /\ Top.i = Len(Top.items)
    /\ Step(<<>>, <<>>, <<RetEv(Top.id)>>, Pop)
    /\ UNCHANGED Others

\* lines 207-210: the loop is over
ContainerDone ==
    /\ status = "run" /\ Top.op = "container"
    /\ Top.i = Len(Top.items)
    /\ Step(<<>>, <<>>, <<SummaryEv(Top.id), RetEv(Top.id)>>, Pop)
    /\ UNCHANGED Others

\* lines 33-34, 223-243: no directory record
ZipNoEocd ==
    /\ Pending
    /\ TypeOfTop = "Zip"
    /\ ~slice_to_eocd(Top.data).some
    /\ Step(<<>>, PersistOps(Top), <<RetEv(Top.id)>>, Pop)
    /\ UNCHANGED Others

\* lines 245-252: ZipArchive::new fails
ZipOpenFail ==
    /\ Pending
    /\ TypeOfTop = "Zip"
    /\ slice_to_eocd(Top.data).some
    /\ Step(<<OpenFailEv(Top.id)>>, <<>>, <<RetEv(Top.id)>>, Pop)
    /\ UNCHANGED Others

\* lines 245-283: ZipArchive::new gives an archive; the extraction
\* directory, the raw bytes, then the loop
ZipOpen ==
    /\ Pending
    /\ TypeOfTop = "Zip"
    /\ slice_to_eocd(Top.data).some
    /\ \E archive \in ArchivesAt(Top.depth, trace[1].depth) :
        Step(<<ArchiveEv(Top.id, Len(archive))>>,
             ExtractOps(Top, ZipContents) \o PersistOps(Top), <<>>,
             Append(Pop, [Top EXCEPT !.op = "zip", !.items = archive,
                                     !.dir = ExtractDir(Top, ZipContents)]))
    /\ UNCHANGED Others

InZip == status = "run" /\ Top.op = "zip" /\ Top.i < Len(Top.items)
TopMember == Top.items[Top.i + 1]
Skipped(m) == m.what = "nofile" \/ EndsWith(m.name, <<Slash>>)

\* lines 286-304: by_index fails, a directory, or read_to_end fails
ZipSkip ==
    /\ InZip
    /\ Skipped(TopMember) \/ (~TopMember.huge /\ TopMember.what = "unreadable")
    /\ Step(<<MemberEv(Top.id, TopMember)>>, <<>>, <<>>,
            Append(Pop, [Top EXCEPT !.i = @ + 1]))
    /\ UNCHANGED Others

\* lines 292, 300: Vec::with_capacity panics for a size above isize::MAX
ZipAlloc ==
    /\ InZip
    /\ ~Skipped(TopMember) /\ TopMember.huge
    /\ trace' = trace \o <<MemberEv(Top.id, TopMember), Event("panic", Top.id)>>
    /\ stack' = <<>>
    /\ status' = "panic"
    /\ UNCHANGED Others

ReadMember ==
    InZip /\ ~Skipped(TopMember) /\ ~TopMember.huge /\ TopMember.what = "file"

\* lines 306-334: a member that is a container or an archive
ZipRecurse ==
    /\ ReadMember
    /\ Recursive(detect_file_type(TopMember.contents, SomeV(TopMember.name)))
    /\ LET m == TopMember
           id == Len(trace) + 2
           name == SomeV(just_filename(m.name))
           out == sub_output(Top.dir, m.name)
       IN Step(<<MemberEv(Top.id, m)>>, <<>>,
               <<CallEv(Top.id, m.contents, name, out, Top.depth + 1)>>,
               Append(Pop, [Top EXCEPT !.i = @ + 1])
                   \o <<Frame("file", id, m.contents, name, out, Top.depth + 1)>>)
    /\ UNCHANGED Others

\* lines 335-353: any other member
ZipLeaf ==
    /\ ReadMember
    /\ ~Recursive(detect_file_type(TopMember.contents, SomeV(TopMember.name)))
    /\ Step(<<MemberEv(Top.id, TopMember)>>, LeafOps(Top, TopMember), <<>>,
            Append(Pop, [Top EXCEPT !.i = @ + 1]))
    /\ UNCHANGED Others

\* line 356: the loop is over
ZipDone ==
    /\ status = "run" /\ Top.op = "zip"
    /\ Top.i = Len(Top.items)
    /\ Step(<<>>, <<>>, <<RetEv(Top.id)>>, Pop)
    /\ UNCHANGED Others

ProcNext ==
    \/ Terminal \/ ContainerEmpty \/ ContainerOpen \/ ContainerEntry
    \/ ContainerDone \/ ZipNoEocd \/ ZipOpenFail \/ ZipOpen \/ ZipSkip
    \/ ZipAlloc \/ ZipRecurse \/ ZipLeaf \/ ZipDone

SpecProc == ProcInit /\ [][ProcNext]_vars

----------------------------------------------------------------------------
(* find_tag as a state machine: the call and its return.  The buffers are  *)
(* all strings over quote, '<', '>' and 'a' up to MaxFindLen bytes; start  *)
(* runs from 0 to one past the length.                                     *)

MaxFindLen == 6

FindBuffers == SeqsUpTo(Alphabet \ {255}, MaxFindLen)

FindInit ==
    /\ fbuffer \in FindBuffers
    /\ fstart \in 0..(Len(fbuffer) + 1)
    /\ fres = TagNone
    /\ fpc = "call"
    /\ ParseIdle
    /\ DetectIdle
    /\ ZipIdle
    /\ ProcIdle

\* lines 5-23
FindTag ==
    /\ fpc = "call"
    /\ fres' = find_tag(fbuffer, fstart)
    /\ fpc' = "ret"
    /\ UNCHANGED <<fbuffer, fstart>>
    /\ UNCHANGED <<parseVars, detectVars, zipVars, procVars>>

FindNext == FindTag

SpecFind == FindInit /\ [][FindNext]_vars

----------------------------------------------------------------------------
(* Claims about parse_file_entries                                         *)

\* the input is one entry, whole, with nothing before it
Single == input.lead = <<>> /\ input.cut < 0 /\ Len(input.parts) = 1

ExactLens(p) == p.nlen = Wide(Len(p.name)) /\ p.clen = Wide(Len(p.content))

\* no quote directly followed by '<' in s
NoTagStart(s) == \A i \in 1..(Len(s) - 1) : ~(s[i] = Quote /\ s[i + 1] = Lt)

\* the info block as built: name length, header, name
InfoBytes(p) == to_be_bytes(p.nlen) \o p.header \o p.name

\* neither the first nor the last byte of the name is a quote
NoOuterQuote(n) == n = <<>> \/ (n[1] # Quote /\ n[Len(n)] # Quote)

\* the 4-byte fields have 4 bytes and the name is UTF-8
Framed(p) == Len(p.header) = 4 /\ Len(p.meta) = 4 /\ IsUtf8(p.name)

\* an entry whose info block the tag scan leaves whole and whose name the
\* quote stripping leaves as it is
WellFormed(p) ==
    Framed(p) /\ ExactLens(p) /\ NoTagStart(InfoBytes(p)) /\ NoOuterQuote(p.name)

RoundTrips(e, p) ==
    /\ e.filename = SomeV(p.name)
    /\ e.header_data = SomeV(p.header)
    /\ e.content_meta = SomeV(p.meta)
    /\ e.content = p.content

\* C1, as stated: for every UTF-8 name, 4-byte header, 4-byte metadata and
\* content, parsing the framed buffer yields exactly one record equal to the
\* inputs.
C1_RoundTripEveryName ==
    (pc = "done" /\ Single /\ Framed(input.parts[1]) /\ ExactLens(input.parts[1]))
        => (Len(entries) = 1 /\ RoundTrips(entries[1], input.parts[1]))

\* C1, amended: the round trip holds for every entry whose info block (name
\* length, header, name) holds no quote directly followed by '<' and whose
\* name neither starts nor ends with a quote.
C1_RoundTrip ==
    (pc = "done" /\ Single /\ WellFormed(input.parts[1]))
        => (Len(entries) = 1 /\ RoundTrips(entries[1], input.parts[1]))

C1_Witness ==
    /\ pc = "done" /\ Single /\ WellFormed(input.parts[1])
    /\ Len(input.parts[1].name) = 8 /\ Len(input.parts[1].content) = 2
    /\ Len(entries) = 1 /\ RoundTrips(entries[1], input.parts[1])

\* C2: the content of a well-formed single entry that holds a tag-like
\* sequence is returned whole, in exactly one record.
C2_ContentByLength ==
    (pc = "done" /\ Single /\ WellFormed(input.parts[1])
        /\ find_tag(input.parts[1].content, 0).found)
        => (Len(entries) = 1 /\ entries[1].content = input.parts[1].content)

C2_Witness ==
    /\ pc = "done" /\ Single /\ WellFormed(input.parts[1])
    /\ input.parts[1].content = TagTransfer
    /\ Len(entries) = 1 /\ entries[1].content = TagTransfer

\* bytes of the buffer after the 8-byte content framing header of e
Available(e) == Max(0, Len(buffer) - (e.content_data_offset + 8))

\* C3: every record's content length is the smaller of the declared length
\* and the bytes that remain after the content framing header, and no index
\* leaves the buffer.
C3_ContentLenIsMin ==
    /\ pc # "panic"
    /\ \A i \in 1..Len(entries) :
        Wide(Len(entries[i].content))
            = WMin(entries[i].content_length, Wide(Available(entries[i])))

C3_Witness ==
    /\ pc = "done" /\ Len(entries) = 1
    /\ WLt(Wide(Len(entries[1].content)), entries[1].content_length)
    /\ Len(entries[1].content) = 3
    /\ entries[1].content_length = U32Max

\* where the content framing header of the i-th part lies in the built buffer
OffsetOf(ps, i) ==
    Len(BuildAll(SubSeq(ps, 1, i - 1))) + Len(TagTransfer) + Len(TagInfo) + 8
        + Len(ps[i].name) + Len(TagContent)

\* C4: the concatenation of k well-formed entries parses to k records, the
\* i-th with the name and content of the i-th entry, read at the place the
\* i-th entry put them.
C4_Concatenation ==
    (pc = "done" /\ input.lead = <<>> /\ input.cut < 0
        /\ \A i \in 1..Len(input.parts) : WellFormed(input.parts[i]))
        => /\ Len(entries) = Len(input.parts)
           /\ \A i \in 1..Len(entries) :
                /\ entries[i].filename = SomeV(input.parts[i].name)
                /\ entries[i].content = input.parts[i].content
                /\ entries[i].content_data_offset = OffsetOf(input.parts, i)

C4_Witness ==
    /\ pc = "done" /\ input.lead = <<>> /\ input.cut < 0
    /\ Len(input.parts) = 3 /\ Len(entries) = 3
    /\ \A i \in 1..3 : WellFormed(input.parts[i])
    /\ input.parts[1].name # input.parts[2].name
    /\ input.parts[2].name # input.parts[3].name
    /\ input.parts[1].content = TagTransfer

\* the declared name length of an info block of at least 8 bytes
DeclaredNameLen(info) == from_be_bytes(info[1], info[2], info[3], info[4])

Overrun(info) ==
    Len(info) >= 8 /\ WLt(Wide(Len(info)), WAdd(DeclaredNameLen(info), 8))

\* an entry, whole, whose declared name length exceeds its name
OverrunInput ==
    /\ Single /\ Framed(input.parts[1])
    /\ NoTagStart(InfoBytes(input.parts[1]))
    /\ WLt(Wide(Len(input.parts[1].name)), input.parts[1].nlen)
    /\ input.parts[1].clen = Wide(Len(input.parts[1].content))

\* C5: an info block shorter than 8 bytes gives no name and no header; one
\* shorter than 8 + the declared name length gives the header and no name;
\* any other gives the header and the declared-length bytes after it with
\* the outer quotes stripped, or no name if those bytes are not UTF-8.  An
\* entry whose declared name length overruns still yields its record, with
\* the header and without a name.
C5_InfoBlock ==
    /\ Len(info_data) < 8 => (ef.filename = NoneV /\ ef.header_data = NoneV)
    /\ Len(info_data) >= 8 => ef.header_data = SomeV(SubSeq(info_data, 5, 8))
    /\ Overrun(info_data) => ef.filename = NoneV
    /\ (Len(info_data) >= 8 /\ ~Overrun(info_data)) =>
        LET bytes == SubSeq(info_data, 9, 8 + WInt(DeclaredNameLen(info_data))) IN
        /\ ~IsUtf8(bytes) => ef.filename = NoneV
        /\ IsUtf8(bytes) =>
            /\ ef.filename.some
            /\ NoOuterQuote(ef.filename.val)
            /\ \E a \in 0..Len(bytes) : \E z \in 0..Len(bytes) :
                /\ a + z + Len(ef.filename.val) = Len(bytes)
                /\ \A i \in 1..Len(bytes) :
                    bytes[i] = IF i <= a \/ i > Len(bytes) - z THEN Quote
                               ELSE ef.filename.val[i - a]
    /\ (pc = "done" /\ OverrunInput) =>
        /\ Len(entries) = 1
        /\ entries[1].filename = NoneV
        /\ entries[1].header_data = SomeV(input.parts[1].header)

C5_Witness ==
    /\ pc = "done" /\ OverrunInput /\ Overrun(info_data)
    /\ Len(input.parts[1].name) > 0
    /\ Len(entries) = 1
    /\ entries[1].filename = NoneV
    /\ entries[1].header_data = SomeV(input.parts[1].header)

\* the loop, step by step, returns what parse_file_entries returns
LoopIsFunction == pc = "done" => entries = parse_file_entries(buffer)

\* C6: no index leaves the buffer, and the scan position stays within the
\* buffer and strictly increases from one iteration to the next; so the
\* loop runs at most len(buffer) times and the function returns.
C6_TotalAndTerminates ==
    /\ [](pc # "panic" /\ pos <= Len(buffer))
    /\ [][(pc = "loop" /\ pc' # "done") => (pc' = "loop" /\ pos' > pos)]_vars

C6_Witness ==
    /\ pc = "done" /\ input.cut >= 0 /\ input.cut < Len(BuildAll(input.parts))
    /\ info_data # <<>> /\ Len(info_data) < 8
    /\ entries = <<>>

----------------------------------------------------------------------------
(* Claims about detect_file_type                                           *)

Returned == file_type # "pending"

\* the quoted tag starts within the first 100 bytes
QuotedMarker(d) == \E i \in 0..(MarkerPosLimit - 1) : OccursAt(d, TagTransfer, i)

\* the tag text starts within the first 100 bytes, with no quote before it
UnquotedMarker(d) ==
    \E i \in 0..(MarkerPosLimit - 1) :
        OccursAt(d, StrTransfer, i) /\ (i = 0 \/ At(d, i - 1) # Quote)

\* the container marker, in either of its two encodings
HasMarker(d) ==
    \E i \in 0..(MarkerPosLimit - 1) : OccursAt(d, StrTransfer, i)

\* C7: a buffer with the quoted tag in its first 100 bytes is the container
\* format, for every hint and whatever magic bytes it starts with.
C7_QuotedMarker == (Returned /\ QuotedMarker(data)) => file_type = "AutelContainer"

C7_Witness ==
    /\ Returned /\ QuotedMarker(data) /\ file_type = "AutelContainer"
    /\ Slice(data, 0, 4) = <<80, 75, 3, 4>>
    /\ OccursAt(data, TagTransfer, MarkerPosLimit - 1)
    /\ hint = SomeV(<<97>> \o ExtZip)

\* C8, as stated: a buffer of at least 4 bytes with the unquoted tag text in
\* its first 100 bytes is the container format.
C8_UnquotedMarker ==
    (Returned /\ Len(data) >= 4 /\ UnquotedMarker(data))
        => file_type = "AutelContainer"

\* a recognised magic signature starts the buffer
StartsWithMagic(d) == Len(d) >= 4 /\ MagicCheck(d) # "none"

\* C9, as stated: for a buffer with the container marker in its first 100
\* bytes or a magic signature at its start, every hint gives the same tag.
C9_HintIndependent ==
    (Returned /\ (HasMarker(data) \/ StartsWithMagic(data)))
        => \A h \in Hints : detect_file_type(data, h) = file_type

\* C9 without C8's case: for a buffer with the quoted tag in its first 100
\* bytes or a magic signature at its start, every hint gives the same tag.
HintIndependentWhenDetected ==
    (Returned /\ (QuotedMarker(data) \/ StartsWithMagic(data)))
        => \A h \in Hints : detect_file_type(data, h) = file_type

\* C10, as stated: for a buffer of at least 4 bytes with no container marker
\* and no magic signature, a hint ending in ".json" gives Json and a hint
\* ending in ".zip" gives Zip.
C10_HintOverText ==
    (Returned /\ Len(data) >= 4 /\ ~HasMarker(data) /\ ~StartsWithMagic(data)
        /\ hint.some)
        => /\ EndsWith(hint.val, ExtJson) => file_type = "Json"
           /\ EndsWith(hint.val, ExtZip) => file_type = "Zip"

\* C10 for the buffers the container check of the code does not accept
HintOverTextWhenNotAccepted ==
    (Returned /\ Len(data) >= 4 /\ ~ContainerCheck(data) /\ ~StartsWithMagic(data)
        /\ hint.some)
        => /\ EndsWith(hint.val, ExtJson) => file_type = "Json"
           /\ EndsWith(hint.val, ExtZip) => file_type = "Zip"

\* d starts with the bytes p
HasPrefix(d, p) == Len(d) >= Len(p) /\ SubSeq(d, 1, Len(p)) = p

\* the rows of the magic table, each with the tag it gives
MagicTable(d, t) ==
    /\ HasPrefix(d, <<80, 75, 3, 4>>) => t = "Zip"
    /\ HasPrefix(d, <<31, 139>>) => t = "Gzip"
    /\ HasPrefix(d, <<52, 18, 239, 190>>) =>
        t = (IF Len(d) >= 5 /\ d[5] = 14 THEN "UpgRcMcu" ELSE "UpgGimbal")
    /\ HasPrefix(d, <<85, 80, 70, 83>>) => t = "UpgFcs"
    /\ HasPrefix(d, <<2, 170, 85, 170>>) => t = "UpgBms"
    /\ (HasPrefix(d, <<0, 0, 0, 0>>) /\ Len(d) >= 5) =>
        (t = "UpgEsc" <=> (d[5] >= 20 /\ d[5] <= 23))
    /\ HasPrefix(d, <<64, 84, 68, 49, 48, 53, 48, 120>>) => t = "GpsBin"

\* C11, as stated: a buffer of at least 4 bytes with no container marker,
\* classified without a hint, gets the tag of the magic row it matches:
\* PK 03 04 Zip, 1f 8b Gzip, 34 12 ef be UpgRcMcu if the 5th byte is 0e and
\* UpgGimbal otherwise, UPFS UpgFcs, 02 aa 55 aa UpgBms, four zero bytes
\* UpgEsc exactly when the 5th byte is in 0x14..0x17, @TD1050x GpsBin.
C11_MagicTable ==
    (Returned /\ Len(data) >= 4 /\ ~HasMarker(data) /\ hint = NoneV)
        => MagicTable(data, file_type)

\* C11 for the buffers the container check of the code does not accept
MagicTableWhenNotAccepted ==
    (Returned /\ Len(data) >= 4 /\ ~ContainerCheck(data) /\ hint = NoneV)
        => MagicTable(data, file_type)

\* the hint ends in ".json" or ".zip"
ExtHint(h) == h.some /\ (EndsWith(h.val, ExtJson) \/ EndsWith(h.val, ExtZip))

\* the tag of the text sniffing: Json if the first byte that is not white
\* space is '{' or '[', Text for other UTF-8, Unknown for other bytes
Sniffed(d) ==
    LET rest == {i \in 1..Len(d) : ~IsAsciiWhitespace(d[i])} IN
    IF ~IsUtf8(d) THEN "Unknown"
    ELSE IF rest # {} /\ d[CHOOSE i \in rest : \A k \in rest : i <= k] \in {123, 91}
        THEN "Json"
    ELSE "Text"

\* C12, as stated: a buffer of at least 4 bytes with no container marker, no
\* magic signature and no ".json" or ".zip" hint is Json if it is UTF-8 and
\* its first non-whitespace byte is '{' or '[', Text if it is UTF-8
\* otherwise, and Unknown if it is not UTF-8.
C12_TextFallback ==
    (Returned /\ Len(data) >= 4 /\ ~HasMarker(data) /\ ~StartsWithMagic(data)
        /\ ~ExtHint(hint))
        => file_type = Sniffed(data)

\* C12 for the buffers the container check of the code does not accept
TextFallbackWhenNotAccepted ==
    (Returned /\ Len(data) >= 4 /\ ~ContainerCheck(data) /\ ~StartsWithMagic(data)
        /\ ~ExtHint(hint))
        => file_type = Sniffed(data)

\* C13: a buffer shorter than 4 bytes is Unknown, whatever the hint.
C13_ShortIsUnknown == (Returned /\ Len(data) < 4) => file_type = "Unknown"

C13_Witness ==
    /\ Returned /\ data = <<123, 123, 123>> /\ hint = SomeV(<<97>> \o ExtJson)
    /\ file_type = "Unknown"

----------------------------------------------------------------------------
(* Claims about slice_to_eocd                                              *)

\* offsets at which the signature starts
Occurrences(d) == {i \in 0..(Len(d) - 4) : OccursAt(d, EocdSig, i)}

\* those with at least 22 bytes from their start to the end of the buffer
Records(d) == {i \in Occurrences(d) : i <= Len(d) - 22}

Last(S) == CHOOSE i \in S : \A k \in S : k <= i

\* the little-endian 16-bit value at bytes i+20..i+21
CommentLen(d, i) == At(d, i + 20) + 256 * At(d, i + 21)

\* C15: nothing is returned if the buffer is shorter than 22 bytes or no
\* signature starts at an offset i <= len - 22; otherwise, with i the
\* rightmost such offset and c the 16-bit value at i+20..i+21, the prefix
\* of min(i + 22 + c, len) bytes is returned.
C15_Locator ==
    zpc = "ret" =>
        IF Len(zdata) < 22 \/ Records(zdata) = {} THEN zres = NoneV
        ELSE LET i == Last(Records(zdata)) IN
            zres = SomeV(SubSeq(zdata, 1,
                        Min(i + 22 + CommentLen(zdata, i), Len(zdata))))

\* a record with a comment of two bytes and two more bytes after it
C15_Witness ==
    /\ zpc = "ret"
    /\ zdata = LocalHeader \o Eocd(2, <<80, 0>>) \o Pad(2)
    /\ zres = SomeV(LocalHeader \o Eocd(2, <<80, 0>>))

\* a declared comment longer than the buffer; a buffer one byte too short
ClampedAndShort ==
    /\ (zpc = "ret" /\ zdata = Eocd(256, <<80>>)) => zres = SomeV(zdata)
    /\ (zpc = "ret" /\ Len(zdata) = 21 /\ Occurrences(zdata) = {0}) => zres = NoneV

\* C16, as stated: with several occurrences of the signature, the returned
\* prefix ends at the last occurrence's offset + 22 + the comment length
\* read there.
C16_LastOccurrence ==
    (zpc = "ret" /\ Cardinality(Occurrences(zdata)) >= 2)
        => LET i == Last(Occurrences(zdata)) IN
            /\ zres.some
            /\ Len(zres.val) = i + 22 + CommentLen(zdata, i)

\* C16, amended: with several occurrences of the signature, at least one of
\* them at an offset <= len - 22, the returned prefix ends at
\* min(i + 22 + c, len) for the last such offset i and the comment length c
\* read there, whatever the earlier occurrences declare.
C16_LastRecord ==
    (zpc = "ret" /\ Cardinality(Occurrences(zdata)) >= 2 /\ Records(zdata) # {})
        => LET i == Last(Records(zdata)) IN
            /\ zres.some
            /\ Len(zres.val) = Min(i + 22 + CommentLen(zdata, i), Len(zdata))
            /\ zres.val = SubSeq(zdata, 1, Len(zres.val))

\* two records, the first without a comment, the second with one byte of
\* comment and a byte after it
C16_Witness ==
    /\ zpc = "ret"
    /\ zdata = Eocd(0, <<>>) \o Pad(1) \o Eocd(1, <<80, 0>>)
    /\ Occurrences(zdata) = {0, 23}
    /\ zres.some /\ Len(zres.val) = 23 + 22 + 1 /\ Len(zres.val) < Len(zdata)

----------------------------------------------------------------------------
(* Claims about parse_file_entries on a container with leading bytes       *)

\* the input is lead bytes followed by one entry
Led == input.cut < 0 /\ Len(input.parts) = 1

\* C23, as stated: whatever bytes precede a well-formed single entry, a
\* record with that entry's name and content is returned.
C23_LeadingBytes ==
    (pc = "done" /\ Led /\ WellFormed(input.parts[1]))
        => \E k \in 1..Len(entries) :
            /\ entries[k].filename = SomeV(input.parts[1].name)
            /\ entries[k].content = input.parts[1].content

\* from offset p on, every tag the scan finds in the lead bytes P ends
\* within P and is not the top-level marker; a tag that is not UTF-8 is
\* left by one byte (line 61), any other by its length (line 67)
RECURSIVE LeadSkipped(_, _)
LeadSkipped(P, p) ==
    IF \A i \in p..(Len(P) - 2) : ~(At(P, i) = Quote /\ At(P, i + 1) = Lt) THEN TRUE
    ELSE LET t == find_tag(P, p) IN
        /\ t.found
        /\ IF ~IsUtf8(t.tag) THEN LeadSkipped(P, t.pos + 1)
           ELSE trim_matches(t.tag) # StrTransfer
                    /\ LeadSkipped(P, t.pos + Len(t.tag))

\* C23, amended: when every tag the scan finds in the leading bytes ends
\* within them and is not the top-level marker (as when they hold no quote
\* directly followed by '<'), exactly one record is returned, with the
\* name and the content of the entry.
C23_LeadingTolerated ==
    (pc = "done" /\ Led /\ WellFormed(input.parts[1]) /\ LeadSkipped(input.lead, 0))
        => /\ Len(entries) = 1
           /\ entries[1].filename = SomeV(input.parts[1].name)
           /\ entries[1].content = input.parts[1].content

\* the tag `"<x>"` before an entry named "b.j"
C23_Witness ==
    /\ pc = "done" /\ Led /\ WellFormed(input.parts[1])
    /\ input.lead = <<34, 60, 120, 62, 34>> /\ LeadSkipped(input.lead, 0)
    /\ Len(entries) = 1 /\ entries[1].filename = SomeV(<<98, 46, 106>>)
    /\ entries[1].content_data_offset > Len(input.lead)

\* leading bytes without a tag start are skipped
NoTagStartIsSkipped ==
    (Led /\ NoTagStart(input.lead)) => LeadSkipped(input.lead, 0)

\* an opening that the lead leaves unterminated, or the top-level marker
\* as lead, hides the entry
LeadHidesEntry ==
    /\ pc = "done" /\ Led /\ WellFormed(input.parts[1])
    /\ input.lead \in {<<Quote, Lt>>, TagTransfer}
    /\ entries = <<>>

----------------------------------------------------------------------------
(* Claims about the parse_file_entries of main.rs                          *)

\* the fields of a record that the claim compares
Fields(e) ==
    <<e.filename, e.header_data, e.content_meta, e.content_length, e.content>>

FieldsOf(es) == [k \in 1..Len(es) |-> Fields(es[k])]

\* C24, as stated: on every buffer the parser of main.rs returns the same
\* records (name, header, content metadata, declared length, content) as
\* the parser of parser.rs.
C24_ParsersAgree ==
    pc = "done" => FieldsOf(main_parse_file_entries(buffer)) = FieldsOf(entries)

\* no tag is found from the start of the content block of a record up to
\* the end of its content
NoTagInBlock(e) ==
    LET t == find_tag(buffer, e.content_data_offset) IN
    t.found => t.pos >= e.content_data_offset + Len(e.raw_content_data)

\* C24 for the buffers whose records hold no tag in their content block
\* and have their content metadata
AgreeWithoutTagInPayload ==
    (pc = "done"
        /\ \A k \in 1..Len(entries) :
            NoTagInBlock(entries[k]) /\ entries[k].content_meta.some)
        => FieldsOf(main_parse_file_entries(buffer)) = FieldsOf(entries)

\* a single well-formed entry with a tag in its content: parser.rs returns
\* the content whole, main.rs a shorter one
MainCutsAtTag ==
    /\ pc = "done" /\ Single /\ WellFormed(input.parts[1])
    /\ Len(entries) = 1 /\ entries[1].content = input.parts[1].content
    /\ Len(main_parse_file_entries(buffer)) = 1
    /\ Len(main_parse_file_entries(buffer)[1].content) < Len(entries[1].content)

----------------------------------------------------------------------------
(* Claims about the windows of the records                                 *)

\* the end of the content window of a record: the offset after its
\* content, or its content_data_offset without content metadata
WindowEnd(e) ==
    IF e.content_meta.some THEN e.content_data_offset + 8 + Len(e.content)
    ELSE e.content_data_offset

\* C25: the records' content_data_offset is strictly increasing and within
\* the buffer; with content metadata the content is the buffer from
\* offset + 8 on; the next record starts at or after the end of the
\* window; a record without content metadata has empty content, declared
\* length 0, and is the last one.
C25_RecordWindows ==
    pc = "done" =>
        \A k \in 1..Len(entries) :
            LET e == entries[k] IN
            /\ e.content_data_offset <= Len(buffer)
            /\ e.content_meta.some =>
                /\ WindowEnd(e) <= Len(buffer)
                /\ e.content =
                    SubSeq(buffer, e.content_data_offset + 8 + 1, WindowEnd(e))
            /\ ~e.content_meta.some =>
                /\ e.content = <<>>
                /\ e.content_length = Wide(0)
                /\ k = Len(entries)
            /\ k < Len(entries) =>
                /\ entries[k + 1].content_data_offset > e.content_data_offset
                /\ entries[k + 1].content_data_offset >= WindowEnd(e)

\* three records, the middle one with a nested entry as content that is
\* not parsed again
C25_Witness ==
    /\ pc = "done" /\ Len(entries) = 3
    /\ entries[2].content = Nested
    /\ entries[3].content_data_offset >= WindowEnd(entries[2])
    /\ WindowEnd(entries[3]) <= Len(buffer)

\* a buffer cut inside the 8 bytes of length and metadata: one record
\* without content metadata
AbsentMetaLast ==
    /\ pc = "done" /\ Len(entries) = 1 /\ ~entries[1].content_meta.some
    /\ entries[1].content_data_offset < Len(buffer)

----------------------------------------------------------------------------
(* Claims about process_file.  A call of process_file is named by the      *)
(* index of its "call" entry in `trace`; its children carry that index.    *)

Calls == {c \in 1..Len(trace) : trace[c].ev = "call"}
TypeOfCall(c) == detect_file_type(trace[c].bytes, trace[c].name)

\* the calls made by the call c, in the order they were made
ChildCalls(c) == {j \in Calls : trace[j].id = c}

\* the call c has returned Ok
ReturnedOk(c) == \E j \in 1..Len(trace) : trace[j] = RetEv(c)

\* the filesystem operations of the call c
FsOpsOf(c) ==
    {j \in 1..Len(trace) :
        trace[j].id = c /\ trace[j].ev \in {"mkdir", "create", "write"}}

\* the root call ended with the failure of a filesystem operation of c
FsFailedIn(c) ==
    /\ status = "err"
    /\ trace[Len(trace)].what = "failed"
    /\ trace[Len(trace)].id = c

\* Gzip, Json, Text, Unknown, a firmware tag, or an archive without a
\* directory record
TerminalCall(c) ==
    \/ TypeOfCall(c) \in
        {"Gzip", "Json", "Text", "Unknown", "UpgGimbal", "UpgFcs", "UpgBms",
         "UpgEsc", "UpgRcMcu", "GpsBin"}
    \/ TypeOfCall(c) = "Zip" /\ ~slice_to_eocd(trace[c].bytes).some

\* the call c touched nothing but its raw bytes at output root/name, and
\* nothing at all without an output root or without a name
OnlyRaw(c) ==
    LET e == trace[c] IN
    \A j \in FsOpsOf(c) :
        /\ e.out.some /\ e.name.some
        /\ trace[j].ev \in {"create", "write"} =>
            trace[j].path = Join(e.out.val, e.name.val)
        /\ trace[j].ev = "mkdir" =>
            SomeV(trace[j].path) = parent(Join(e.out.val, e.name.val))
        /\ (trace[j].ev = "write" /\ trace[j].what # "failed") =>
            trace[j].bytes = e.bytes

\* the raw bytes of the call c were written
RawWritten(c) ==
    \E j \in FsOpsOf(c) :
        trace[j] = FsEv("write", c, Join(trace[c].out.val, trace[c].name.val),
                        trace[c].bytes)

\* C17, as stated: a call on a terminal format makes no call of
\* process_file, persists nothing but its raw bytes, and returns success.
C17_TerminalReturnsOk ==
    \A c \in Calls :
        (TerminalCall(c) /\ c < Len(trace)) =>
            /\ ChildCalls(c) = {}
            /\ OnlyRaw(c)
            /\ ReturnedOk(c)

\* C17, amended: a call on a terminal format makes no call of
\* process_file and touches nothing but its raw bytes; it returns success
\* with the raw bytes written when an output root and a name are given,
\* unless one of its filesystem operations fails, which ends the call with
\* that failure.
C17_TerminalNeverRecurses ==
    \A c \in Calls :
        (TerminalCall(c) /\ c < Len(trace)) =>
            /\ ChildCalls(c) = {}
            /\ OnlyRaw(c)
            /\ ReturnedOk(c) \/ FsFailedIn(c)
            /\ (ReturnedOk(c) /\ trace[c].out.some /\ trace[c].name.some)
                    => RawWritten(c)

\* an archive without a directory record, named and with an output root,
\* was written and returned
C17_Witness ==
    /\ status = "ok"
    /\ trace[1].bytes = NoEocdZip /\ trace[1].out.some /\ trace[1].name.some
    /\ TerminalCall(1) /\ ReturnedOk(1) /\ RawWritten(1) /\ ChildCalls(1) = {}

\* the members that by_index yielded and read_to_end read, directories apart
FileMembers ==
    {j \in 1..Len(trace) :
        /\ trace[j].ev = "member" /\ trace[j].what = "file"
        /\ ~EndsWith(trace[j].name.val, <<Slash>>)}

\* the member of entry j was dispatched: a call of process_file at depth+1
\* with its bytes exactly when they classify, with the member name as hint,
\* as a container or an archive; otherwise no call, and the bytes written
\* at extraction directory/member path when an output root is given (or
\* the run ended on a failed filesystem operation of the archive's call)
Dispatched(j) ==
    LET m == trace[j]
        z == trace[m.id]
        t == detect_file_type(m.bytes, m.name)
        called == j < Len(trace) /\ trace[j + 1].ev = "call" /\ trace[j + 1].id = m.id
    IN  /\ ~(j < Len(trace) /\ trace[j + 1].ev = "panic")
        /\ (t \in {"AutelContainer", "Zip"}) <=> called
        /\ called => (trace[j + 1].depth = z.depth + 1 /\ trace[j + 1].bytes = m.bytes)
        /\ (t \notin {"AutelContainer", "Zip"} /\ z.out.some) =>
            \/ FsFailedIn(m.id)
            \/ \E k \in FsOpsOf(m.id) :
                /\ k > j
                /\ trace[k] = FsEv("write", m.id,
                        Join(ExtractDir(z, ZipContents).val, m.name.val), m.bytes)

\* C18, as stated: every member whose name does not end with '/' is
\* dispatched: a recursive call at depth+1 with its bytes if and only if
\* they classify as a container or an archive, a leaf written under the
\* extraction directory otherwise.
C18_MemberDispatch == \A j \in FileMembers : Dispatched(j)

\* C18 for the members whose declared size is at most isize::MAX
MemberDispatchUnlessHuge ==
    \A j \in FileMembers : ~trace[j].huge => Dispatched(j)

\* members whose name ends with '/' are skipped: the next entry is the
\* next member, or the return of the archive's call
DirectoriesSkipped ==
    \A j \in 1..Len(trace) :
        (trace[j].ev = "member" /\ trace[j].what = "file"
            /\ EndsWith(trace[j].name.val, <<Slash>>) /\ j < Len(trace))
            => \/ trace[j + 1].ev = "member" /\ trace[j + 1].id = trace[j].id
               \/ trace[j + 1] = RetEv(trace[j].id)

ContainerCalls == {c \in Calls : TypeOfCall(c) = "AutelContainer"}
RecordsOf(c) == parse_file_entries(trace[c].bytes)
SummariesOf(c) == {j \in 1..Len(trace) : trace[j] = SummaryEv(c)}

\* the k-th smallest element of a set of indices
Nth(S, k) == CHOOSE j \in S : Cardinality({i \in S : i < j}) = k - 1

\* the k-th call made by c carries the k-th record's content and name,
\* one level deeper than c
ChildIsRecord(c, k) ==
    LET e == trace[Nth(ChildCalls(c), k)]
        r == RecordsOf(c)[k]
    IN  e.bytes = r.content /\ e.name = r.filename /\ e.depth = trace[c].depth + 1

\* the call j returned Ok before entry s of the trace
ReturnedBefore(j, s) == \E r \in 1..(s - 1) : trace[r] = RetEv(j)

\* C19, as stated: a call on a container that returned has made one call
\* per record, in record order, with the record's content and name at
\* depth+1, and has emitted the summary exactly once, after the last
\* child returned.
C19_ContainerDispatch ==
    \A c \in ContainerCalls :
        ReturnedOk(c) =>
            /\ Cardinality(ChildCalls(c)) = Len(RecordsOf(c))
            /\ \A k \in 1..Len(RecordsOf(c)) : ChildIsRecord(c, k)
            /\ Cardinality(SummariesOf(c)) = 1
            /\ \A s \in SummariesOf(c) :
                \A j \in ChildCalls(c) : ReturnedBefore(j, s)

\* C19, amended: the calls a container call has made are, in order, the
\* first records of the parser, each with the record's content and name at
\* depth+1 and each made after the child before it returned success; the
\* summary is emitted at most once, and only after every record's child
\* has returned success; a call that returns success has processed every
\* record and has emitted the summary once if there is a record, and not
\* at all if there is none.
C19_DispatchInOrder ==
    \A c \in ContainerCalls :
        LET n == Cardinality(ChildCalls(c)) IN
        /\ n <= Len(RecordsOf(c))
        /\ \A k \in 1..n : ChildIsRecord(c, k)
        /\ \A k \in 2..n :
            ReturnedBefore(Nth(ChildCalls(c), k - 1), Nth(ChildCalls(c), k))
        /\ Cardinality(SummariesOf(c)) <= 1
        /\ \A s \in SummariesOf(c) :
            /\ n = Len(RecordsOf(c)) /\ n > 0
            /\ \A j \in ChildCalls(c) : ReturnedBefore(j, s)
        /\ ReturnedOk(c) =>
            /\ n = Len(RecordsOf(c))
            /\ Cardinality(SummariesOf(c)) = (IF n = 0 THEN 0 ELSE 1)

\* a container of three entries, one of them a container, has returned:
\* three calls, the inner summary before the outer one
C19_Witness ==
    /\ status = "ok" /\ trace[1].bytes = Outer
    /\ Cardinality(ChildCalls(1)) = 3
    /\ \E inner \in ChildCalls(1) :
        /\ trace[inner].bytes = Inner
        /\ \E s \in SummariesOf(inner) : \E t \in SummariesOf(1) : s < t
    /\ trace[Len(trace) - 1] = SummaryEv(1)

\* a container from which no record is parsed returns without a summary
EmptyContainerNoSummary ==
    \A c \in ContainerCalls :
        (ReturnedOk(c) /\ RecordsOf(c) = <<>>)
            => (ChildCalls(c) = {} /\ SummariesOf(c) = {})

\* what the claim calls a recoverable failure: the decoder could not open
\* an archive, yield a member or read it, or a child that is a container
\* has no record in its framing
RecoverableFailures ==
    {j \in 1..Len(trace) :
        \/ trace[j].ev = "openfail"
        \/ trace[j].ev = "member" /\ trace[j].what \in {"nofile", "unreadable"}
        \/ j \in ContainerCalls /\ j > 1 /\ RecordsOf(j) = <<>>}

\* the child at which the failure of entry j happened returned success:
\* the call itself, or for a member the loop went on or ended
ChildReturned(j) ==
    IF trace[j].ev = "openfail" THEN ReturnedOk(trace[j].id)
    ELSE IF trace[j].ev = "call" THEN ReturnedOk(j)
    ELSE j < Len(trace) /\ trace[j + 1].ev \in {"member", "ret"}
            /\ trace[j + 1].id = trace[j].id

\* every member of every opened archive and every record of every
\* container was taken up
AllProcessed ==
    /\ \A a \in 1..Len(trace) :
        trace[a].ev = "archive" =>
            Cardinality({j \in 1..Len(trace) :
                trace[j].ev = "member" /\ trace[j].id = trace[a].id}) = trace[a].n
    /\ \A j \in FileMembers : Dispatched(j)
    /\ \A c \in ContainerCalls :
        /\ Cardinality(ChildCalls(c)) = Len(RecordsOf(c))
        /\ \A k \in ChildCalls(c) : ReturnedOk(k)

\* C20, as stated: in a run that ended without a failed filesystem
\* operation, every recoverable failure left its child returning success,
\* and every member and record, the later siblings among them, was
\* processed.
C20_FailuresDoNotAbort ==
    (status \notin {"run", "err"} /\ RecoverableFailures # {})
        => /\ \A j \in RecoverableFailures : ChildReturned(j)
           /\ status = "ok"
           /\ AllProcessed

\* C20 for the runs in which no declared size makes the allocation panic
FailuresDoNotAbortUnlessHuge ==
    (status = "ok" /\ RecoverableFailures # {})
        => /\ \A j \in RecoverableFailures : ChildReturned(j)
           /\ AllProcessed

\* a run that ended well with a member that could not be read and a
\* sibling processed after it, and with an archive that could not be opened
\* inside an archive and a sibling written after it
SiblingAfterFailure ==
    /\ status = "ok"
    /\ \/ \E j \in RecoverableFailures :
            /\ trace[j].ev = "member" /\ trace[j].what = "unreadable"
            /\ \E k \in Calls : k > j /\ trace[k].id = trace[j].id
       \/ \E j \in RecoverableFailures :
            /\ trace[j].ev = "openfail" /\ trace[j].id > 1
            /\ \E k \in 1..Len(trace) : k > j /\ trace[k].ev = "write"

\* the index of the return of the call c, if it returned Ok
RetOf(c) == CHOOSE r \in 1..Len(trace) : trace[r] = RetEv(c)

\* when the call c returned, the file at output root/name held the bytes
\* of its buffer: they were written there by c, and nothing was written at
\* that path between that write and the return
HeldAtReturn(c) ==
    LET e == trace[c]
        p == Join(e.out.val, e.name.val)
    IN  \E j \in FsOpsOf(c) :
            /\ trace[j] = FsEv("write", c, p, e.bytes)
            /\ \A k \in (j + 1)..RetOf(c) :
                (trace[k].ev \in {"create", "write"}) => trace[k].path # p

Named(c) == trace[c].out.some /\ trace[c].name.some

\* C21, as stated: every call with an output root R and a name N that
\* returned success has left the bytes of its buffer in the file R/N,
\* whatever the buffer classifies as.
C21_PersistedLayout ==
    \A c \in Calls : (Named(c) /\ ReturnedOk(c)) => HeldAtReturn(c)

\* a container, and an archive the decoder could not open
NotPersisted(c) ==
    \/ TypeOfCall(c) = "AutelContainer"
    \/ TypeOfCall(c) = "Zip" /\ \E j \in 1..Len(trace) : trace[j] = OpenFailEv(c)

\* C21 for the calls that are neither on a container nor on an archive the
\* decoder could not open
PersistedUnlessContainer ==
    \A c \in Calls :
        (Named(c) /\ ReturnedOk(c) /\ ~NotPersisted(c)) => HeldAtReturn(c)

\* a named container call with an output root returned success and nothing
\* was written at output root/name
ContainerNotPersisted ==
    /\ status = "ok" /\ Named(1) /\ trace[1].bytes = Inner
    /\ \A j \in 1..Len(trace) :
        trace[j].ev = "write" => trace[j].path # Join(trace[1].out.val, trace[1].name.val)

----------------------------------------------------------------------------
(* Claims about find_tag                                                   *)

\* the offsets i >= s with b[i] = quote and b[i + 1] = '<'
Openings(b, s) ==
    {i \in s..(Len(b) - 2) : At(b, i) = Quote /\ At(b, i + 1) = Lt}

\* the offsets j >= s with b[j] = '>' and b[j + 1] = quote
Closings(b, s) ==
    {j \in s..(Len(b) - 2) : At(b, j) = Gt /\ At(b, j + 1) = Quote}

Least(S) == CHOOSE i \in S : \A k \in S : i <= k

\* the pair (i, j) of the claim exists
TagPair(b, s) == Openings(b, s) # {} /\ Closings(b, Least(Openings(b, s)) + 2) # {}

\* C22: find_tag returns nothing exactly when there is no opening at or
\* after start, or no closing at or after the first opening plus two;
\* otherwise it returns the first opening i and the bytes from i up to and
\* including the quote of the first closing.  No index leaves the buffer.
C22_FindTag ==
    fpc = "ret" =>
        /\ fres.ok
        /\ fres.found <=> TagPair(fbuffer, fstart)
        /\ fres.found =>
            LET i == Least(Openings(fbuffer, fstart))
                j == Least(Closings(fbuffer, i + 2))
            IN  /\ fres.pos = i
                /\ fres.tag = SubSeq(fbuffer, i + 1, j + 2)
                /\ fres.tag[1] = Quote /\ fres.tag[Len(fres.tag)] = Quote

\* `"<"<>"` searched from offset 1: the tag `"<>"` at offset 2
C22_Witness ==
    /\ fpc = "ret"
    /\ fbuffer = <<Quote, Lt, Quote, Lt, Gt, Quote>> /\ fstart = 1
    /\ fres.found /\ fres.pos = 2 /\ fres.tag = <<Quote, Lt, Gt, Quote>>

\* an opening without a closing, an empty buffer, a start past the end:
\* nothing is returned
NothingFound ==
    (fpc = "ret"
        /\ \/ fbuffer = <<>>
           \/ fstart > Len(fbuffer)
           \/ Closings(fbuffer, 0) = {})
        => ~fres.found

----------------------------------------------------------------------------
(* Claims about the termination of the recursion through containers       *)

\* the three tags with their quotes: 16 + 12 + 15 bytes
TagsLen == Len(TagTransfer) + Len(TagInfo) + Len(TagContent)

\* the decoder has opened an archive
ArchiveOpened == \E j \in 1..Len(trace) : trace[j].ev = "archive"

\* C26, as stated: every record of a container is shorter than the
\* container's buffer by at least the three tags and the 8 bytes of length
\* and metadata.
C26_ShorterByHeader ==
    \A c \in ContainerCalls :
        \A k \in 1..Len(RecordsOf(c)) :
            Len(RecordsOf(c)[k].content) + TagsLen + 8 <= Len(trace[c].bytes)

\* every record is shorter than the buffer by the three tags, and by 8
\* bytes more when it has its content metadata; every call made for a
\* record has a buffer shorter than its caller's
RecordsShorter ==
    \A c \in ContainerCalls :
        /\ \A k \in 1..Len(RecordsOf(c)) :
            LET r == RecordsOf(c)[k] IN
            /\ Len(r.content) + TagsLen <= Len(trace[c].bytes)
            /\ r.content_meta.some =>
                Len(r.content) + TagsLen + 8 <= Len(trace[c].bytes)
            /\ r.content # trace[c].bytes
        /\ \A j \in ChildCalls(c) : Len(trace[j].bytes) < Len(trace[c].bytes)

\* as long as no archive is opened, the calls made are at most one per
\* three tags of the root buffer, the root call apart, and each call
\* leaves at most 7 entries in the trace (call, create_dir_all of the
\* extraction directory, create_dir_all, create and write of the raw
\* bytes, summary or decoder failure, return)
CallsBounded ==
    ~ArchiveOpened =>
        /\ (Cardinality(Calls) - 1) * TagsLen <= Len(trace[1].bytes)
        /\ Len(trace) <= 7 * Cardinality(Calls)

\* a run that has not ended can take a step: the top frame is a call not
\* yet started, or a loop with an entry or member to take up or at its end
CanStep ==
    status = "run" =>
        /\ stack # <<>>
        /\ \/ Top.op = "file" /\ TypeOfTop \in FileTypes
           \/ Top.op \in {"container", "zip"} /\ Top.i <= Len(Top.items)
        /\ (Top.op = "zip" /\ Top.i < Len(Top.items))
                => TopMember.what \in {"file", "nofile", "unreadable"}

\* a step extends the trace, or it starts the call on top of the stack
\* without an entry in the trace
Progress ==
    \/ Len(trace') > Len(trace)
    \/ /\ trace' = trace
       /\ Top.op = "file"
       /\ stack' # <<>> /\ stack'[Len(stack')].op # "file"
       /\ Len(stack') = Len(stack)

\* C26, amended: every record of a container is shorter than the
\* container's buffer by at least the three tags (and by the 8 bytes of
\* length and metadata as well when it has its content metadata), so it
\* is never the buffer itself; a run in which no archive is opened makes
\* a bounded number of calls and comes to its end: it is never stuck,
\* every step extends the trace or starts a pending call, and the trace
\* is bounded by the length of the root buffer.
C26_ContainerRecursionTerminates ==
    /\ []RecordsShorter
    /\ []CallsBounded
    /\ []CanStep
    /\ [][Progress]_vars

\* a container in a container was processed to the end without an archive
\* being opened
C26_Witness ==
    /\ status = "ok" /\ ~ArchiveOpened
    /\ trace[1].bytes = BadFirst
    /\ \E c \in ChildCalls(1) :
        /\ c \in ContainerCalls
        /\ Len(trace[c].bytes) + TagsLen + 8 <= Len(trace[1].bytes)
    /\ Cardinality(ChildCalls(1)) = 2

\* the three tags alone: a record 43 bytes shorter than the buffer
BareRecord ==
    /\ status = "ok" /\ trace[1].bytes = Bare
    /\ Len(RecordsOf(1)) = 1 /\ RecordsOf(1)[1].content = <<>>
    /\ ~RecordsOf(1)[1].content_meta.some
    /\ Len(trace[1].bytes) = TagsLen

----------------------------------------------------------------------------
(* Claims about where process_file writes.  Paths are compared by their    *)
(* components after "." and ".." are resolved; links are not followed.     *)

\* the offset of the first '/' of p, or Len(p) + 1
RECURSIVE FirstSlash(_, _)
FirstSlash(p, k) == IF k > Len(p) \/ p[k] = Slash THEN k ELSE FirstSlash(p, k + 1)

\* the components of p, empty ones dropped
RECURSIVE Components(_)
Components(p) ==
    IF p = <<>> THEN <<>>
    ELSE LET k == FirstSlash(p, 1) IN
        (IF k > 1 THEN <<SubSeq(p, 1, k - 1)>> ELSE <<>>)
            \o Components(SubSeq(p, k + 1, Len(p)))

DotDot == <<Dot, Dot>>

\* cs resolved onto acc: "." is dropped, ".." takes the last component
\* away, or stays when there is none to take (above the root it is dropped)
RECURSIVE Resolve(_, _, _)
Resolve(cs, acc, rooted) ==
    IF cs = <<>> THEN acc
    ELSE LET c == Head(cs) IN
        IF c = <<Dot>> THEN Resolve(Tail(cs), acc, rooted)
        ELSE IF c # DotDot THEN Resolve(Tail(cs), Append(acc, c), rooted)
        ELSE IF acc # <<>> /\ acc[Len(acc)] # DotDot THEN
            Resolve(Tail(cs), SubSeq(acc, 1, Len(acc) - 1), rooted)
        ELSE IF rooted THEN Resolve(Tail(cs), acc, rooted)
        ELSE Resolve(Tail(cs), Append(acc, c), rooted)

Resolved(p) == Resolve(Components(p), <<>>, HasRoot(p))

\* p is R or a descendant of R
Within(R, p) ==
    /\ HasRoot(p) = HasRoot(R)
    /\ LET r == Resolved(R)
           q == Resolved(p)
       IN  Len(q) >= Len(r) /\ SubSeq(q, 1, Len(r)) = r

\* the directories created and the files created or written
Effects ==
    {j \in 1..Len(trace) :
        trace[j].ev \in {"mkdir", "create", "write"} /\ trace[j].what # "failed"}

\* C27, as stated: every directory created and every file written is the
\* output root of the run or a descendant of it.
C27_WritesConfined ==
    \A j \in Effects : Within(trace[1].out.val, trace[j].path)

\* a name that is relative and has no ".." component
PlainName(n) ==
    ~HasRoot(n) /\ \A k \in 1..Len(Components(n)) : Components(n)[k] # DotDot

\* the names that the calls and the archive members of the run carry
NamesCarried ==
    {trace[j].name.val : j \in {i \in 1..Len(trace) :
        trace[i].ev \in {"call", "member"} /\ trace[i].name.some}}

\* C27 for the runs in which every name is relative and without ".."
ConfinedForPlainNames ==
    (\A n \in NamesCarried : PlainName(n)) => C27_WritesConfined

\* a record named "/e" was written at the root of the filesystem
AbsoluteWrittenOutside ==
    \E j \in Effects :
        /\ trace[j].ev = "write" /\ trace[j].path = NameAbs
        /\ ~Within(trace[1].out.val, trace[j].path)

\* an archive member named "../../u.txt" was written beside the output
\* root
ClimbingWrittenOutside ==
    \E j \in Effects :
        /\ trace[j].ev = "write"
        /\ Resolved(trace[j].path) = <<<<117, 46, 116, 120, 116>>>>
        /\ ~Within(trace[1].out.val, trace[j].path)

----------------------------------------------------------------------------
(* Claims about a run without an output root                               *)

\* the filesystem operations attempted, failed ones included
FsOps == {j \in 1..Len(trace) : trace[j].ev \in {"mkdir", "create", "write"}}

\* no filesystem operation was attempted and no call was given an output
\* directory
NothingTouched == FsOps = {} /\ \A c \in Calls : trace[c].out = NoneV

\* C28, as stated: in a run without an output root no directory is
\* created and no file is written, every call at every depth is made
\* without an output directory, and the run, once ended, has returned
\* success.
C28_NoRootNoWrites ==
    trace[1].out = NoneV =>
        /\ NothingTouched
        /\ status # "run" => status = "ok"

\* C28 without the allocation of a declared size: nothing is touched, and
\* the run does not end with an I/O failure
NoRootNoWritesUnlessHuge ==
    trace[1].out = NoneV =>
        /\ NothingTouched
        /\ status \notin {"run", "panic"} => status = "ok"

\* a container of a container and an archive was processed to the end
\* without an output root: six calls, nothing touched
NoRootDeepRun ==
    /\ status = "ok" /\ trace[1].out = NoneV /\ trace[1].bytes = Outer
    /\ ArchiveOpened /\ NothingTouched
    /\ \E j \in 1..Len(trace) : trace[j].ev = "member" /\ trace[j].what = "file"

\* without an output root the run ended in the panic of the allocation
NoRootPanic == trace[1].out = NoneV /\ status = "panic" /\ NothingTouched

====
